---- MODULE Spec2Model ----
(***************************************************************************)
(* The payment-intent storage layer (crates/router/src/db/payment_intent.rs)*)
(* with its two storage schemes, the in-memory MockDb, the drainer stream  *)
(* (crates/router/src/services.rs) and the verify flow's tracker creation  *)
(* (core/payments/operations/payment_method_validate.rs).                  *)
(*                                                                         *)
(* Every await of the Rust code is one step of a caller: a redis command,  *)
(* a stream append or a relational statement is atomic, and other callers  *)
(* and the drainer may run between two of them.                            *)
(***************************************************************************)
EXTENDS Naturals, Integers, Sequences, FiniteSets, TLC

(***************************************************************************)
(* Bounds of the model.                                                    *)
(***************************************************************************)
\* storage calls started in one behaviour
MaxCalls == 4
\* values date_time::now() can return
MaxTime == 2
\* config.drainer.num_partitions (a deployment setting)
NumPartitions == 2
\* rows MockDb holds at most
MaxMockRows == 3
\* concurrent runs of the verify flow
NumRuns == 2

\* the two concurrent callers of the storage interface
Callers == {1, 2}
Times == 1..MaxTime
Runs == 1..NumRuns
Merchants == {"M1"}
PaymentIds == {"P1", "P2"}
Schemes == {"PostgresOnly", "RedisKv"}

(***************************************************************************)
(* Option<T>: None is the empty sequence, Some(v) the one-element one.     *)
(***************************************************************************)
None == <<>>
Some(v) == <<v>>
unwrap_or(o, d) == IF o = None THEN d ELSE o[1]

VARIABLES
    storage_scheme,      \* merchant -> MerchantStorageScheme of the account
    cache,               \* redis: key -> serialized row held in hash field "pi"
    stream,              \* redis: stream name -> sequence of entries
    drained,             \* drainer: stream name -> number of entries applied
    pg,                  \* relational table payment_intent: a set of rows
    callers,             \* caller -> its position in a storage call and its locals
    calls,               \* number of storage calls started
    log,                 \* history: the storage calls that returned, in return order
    payment_intents,     \* MockDb.payment_intents: a Vec<PaymentIntent>
    mock_held,           \* the row and the result MockDb's caller got last
    row_in,              \* a PaymentIntentNew and a clock reading
    row_out,             \* the rows the insert paths build from row_in
    runs,                \* verify-flow run -> its position in get_trackers
    payment_attempts,    \* table payment_attempt: a set of rows
    connector_responses, \* table connector_response: a set of rows
    is_redis_available,  \* RedisConnectionPool.is_redis_available: the health flag
    customers,           \* table customers: a set of rows
    user_state,          \* the dashboard user's row, the blacklist and the last call
    invite,              \* an invite_multiple_user call: requests, responses, rows
    refund,              \* a RefundRequest and the refund type resolved for it
    verify_calls,        \* the verify_recovery_code calls: their positions and locals
    signout_call,        \* a signout call: its position and the steps it has done
    tenancy,             \* merchant accounts, the user's roles and tokens, the last call
    tables               \* tables configs and merchant_connector_account, the rows held

kvVars == <<cache, stream, drained>>
callVars == <<callers, calls, log>>
mockVars == <<payment_intents, mock_held>>
rowVars == <<row_in, row_out>>
verifyVars == <<runs, payment_attempts, connector_responses>>
\* what no operation of Store touches
outsideStore == <<mockVars, rowVars, verifyVars>>
healthVars == <<is_redis_available>>
dashboardVars == <<user_state, invite>>
refundVars == <<refund>>
sessionVars == <<verify_calls, signout_call>>
adminVars == <<tenancy, tables>>
\* what neither the payment-intent store nor get_trackers touches
auxVars == <<healthVars, customers, dashboardVars, refundVars, sessionVars, adminVars>>
vars == <<storage_scheme, cache, stream, drained, pg, callers, calls, log,
          payment_intents, mock_held, row_in, row_out,
          runs, payment_attempts, connector_responses,
          is_redis_available, customers, user_state, invite, refund,
          verify_calls, signout_call, tenancy, tables>>

(***************************************************************************)
(* Rows and requests.  A PaymentIntent carries the identity, the status,   *)
(* the two timestamps the insert paths compute, the fields a changeset     *)
(* can set (status, return_url, customer_id) and amount, which stands for  *)
(* the fields every path copies from PaymentIntentNew unchanged.           *)
(***************************************************************************)
IntentFields == <<"id", "payment_id", "merchant_id", "status", "amount",
                  "customer_id", "return_url", "created_at", "modified_at">>

\* PaymentIntentNew as make_payment_intent builds it: both timestamps are
\* Some(date_time::now()) of one call, amount is 0, status comes from
\* payment_intent_status_fsm(.., Some(true)).
make_payment_intent(payment_id, merchant_id, t) ==
    [payment_id |-> payment_id, merchant_id |-> merchant_id,
     status |-> "RequiresConfirmation", amount |-> 0,
     customer_id |-> None, return_url |-> None,
     created_at |-> Some(t), modified_at |-> Some(t)]

\* format!("{}_{}", payment_id, merchant_id)
CacheKey(payment_id, merchant_id) == payment_id \o "_" \o merchant_id

\* the row the RedisKv insert builds; now1 and now2 are its two calls of
\* date_time::now()
created_intent(new, now1, now2) ==
    [id |-> 0,
     payment_id |-> new.payment_id,
     merchant_id |-> new.merchant_id,
     status |-> new.status,
     amount |-> new.amount,
     customer_id |-> new.customer_id,
     return_url |-> new.return_url,
     created_at |-> unwrap_or(new.created_at, now1),
     modified_at |-> unwrap_or(new.created_at, now2)]

\* serde_json::to_string(&PaymentIntent): the fields in declaration order
to_string(row) == [i \in 1..Len(IntentFields) |-> <<IntentFields[i], row[IntentFields[i]]>>]

\* serde_json::from_str::<PaymentIntent>: each field looked up by name
JsonField(json, name) == (CHOOSE i \in 1..Len(json) : json[i][1] = name)
from_str(json) ==
    [f \in {IntentFields[i] : i \in 1..Len(IntentFields)} |-> json[JsonField(json, f)][2]]

(***************************************************************************)
(* Changesets.  PaymentIntentUpdate::ReturnUrlUpdate is the variant the    *)
(* verify flow issues; a None field leaves the column as it is.            *)
(***************************************************************************)
ReturnUrlUpdate(return_url, status, customer_id) ==
    [return_url |-> return_url, status |-> status, customer_id |-> customer_id]

Updates ==
    {ReturnUrlUpdate(None, Some("Processing"), None),
     ReturnUrlUpdate(None, Some("Succeeded"), None),
     ReturnUrlUpdate(Some("u1"), None, None)}

\* PaymentIntentUpdate::apply_changeset(self, source): the prior row with
\* the changeset's Some fields written over it
apply_changeset(upd, source) ==
    [source EXCEPT
        !.status = unwrap_or(upd.status, source.status),
        !.return_url = IF upd.return_url = None THEN source.return_url ELSE upd.return_url,
        !.customer_id = IF upd.customer_id = None THEN source.customer_id ELSE upd.customer_id]

(***************************************************************************)
(* The relational store.                                                   *)
(***************************************************************************)
SameIdentity(row, merchant_id, payment_id) ==
    row.merchant_id = merchant_id /\ row.payment_id = payment_id

PgRows(table, merchant_id, payment_id) ==
    {row \in table : SameIdentity(row, merchant_id, payment_id)}

\* the row INSERT INTO payment_intent produces: a serial id, every column of
\* PaymentIntentNew, and the column default now() for an absent timestamp
PgInsertedRow(table, new, now) ==
    [id |-> Cardinality(table) + 1,
     payment_id |-> new.payment_id,
     merchant_id |-> new.merchant_id,
     status |-> new.status,
     amount |-> new.amount,
     customer_id |-> new.customer_id,
     return_url |-> new.return_url,
     created_at |-> unwrap_or(new.created_at, now),
     modified_at |-> unwrap_or(new.modified_at, now)]

PgInsert_without_unique_index(table, new, now) ==
    table \cup {PgInsertedRow(table, new, now)}

\* the insert statement: refused by the unique index on (payment_id,
\* merchant_id) when the identity exists
PgInsert(table, new, now) ==
    IF PgRows(table, new.merchant_id, new.payment_id) # {}
    THEN table
    ELSE table \cup {PgInsertedRow(table, new, now)}

\* the update statement: UPDATE .. SET <the changeset's Some fields>
\* WHERE payment_id = .. AND merchant_id = ..
PgUpdate(table, merchant_id, payment_id, upd) ==
    {IF SameIdentity(row, merchant_id, payment_id) THEN apply_changeset(upd, row) ELSE row :
        row \in table}

(***************************************************************************)
(* The drainer stream.                                                     *)
(***************************************************************************)
drainer_stream_name == "drainer_stream"

\* stand-in for the hash of the partition key: a fixed number per id
hash(s) ==
    CASE s = "M1" -> 1
      [] s = "P1" -> 1
      [] s = "P2" -> 2
      [] OTHER -> Len(s)

\* KvStorePartition::shard_key(PartitionKey::MerchantIdPaymentId, n)
shard_key(merchant_id, payment_id, num_partitions) ==
    "shard_" \o ToString((31 * hash(merchant_id) + hash(payment_id)) % num_partitions)

\* Store::get_drainer_stream_name: format!("{{{}}}_{}", shard_key, name)
get_drainer_stream_name(shard) == "{" \o shard \o "}_" \o drainer_stream_name

InsertStream_by_merchant(intent) ==
    get_drainer_stream_name(shard_key(intent.merchant_id, intent.merchant_id, NumPartitions))

\* the stream the RedisKv insert appends to
InsertStream(intent) ==
    get_drainer_stream_name(shard_key(intent.merchant_id, intent.payment_id, NumPartitions))

UpdateStream_by_status(intent) ==
    get_drainer_stream_name(shard_key(intent.merchant_id, intent.status, NumPartitions))

\* the stream the RedisKv update appends to
UpdateStream(intent) ==
    get_drainer_stream_name(shard_key(intent.merchant_id, intent.payment_id, NumPartitions))

StreamNames == {get_drainer_stream_name("shard_" \o ToString(n)) : n \in 0..(NumPartitions - 1)}

Entries(name) == IF name \in DOMAIN stream THEN stream[name] ELSE <<>>
Drained(name) == IF name \in DOMAIN drained THEN drained[name] ELSE 0

stream_append_entry_twice(name, fields) ==
    LET first == [fields EXCEPT !.id = Len(Entries(name)) + 1]
        second == [fields EXCEPT !.id = Len(Entries(name)) + 2]
    IN  IF name \in DOMAIN stream
        THEN [stream EXCEPT ![name] = @ \o <<first, second>>]
        ELSE stream @@ (name :> <<first, second>>)

\* XADD name * fields: redis appends the entry under a generated id larger
\* than every id of the stream
stream_append_entry(name, fields) ==
    LET entry == [fields EXCEPT !.id = Len(Entries(name)) + 1]
    IN  IF name \in DOMAIN stream
        THEN [stream EXCEPT ![name] = Append(@, entry)]
        ELSE stream @@ (name :> <<entry>>)

\* new.insert_diesel_query(&conn).to_field_value_pairs()
insert_diesel_query(new, call) ==
    [id |-> 0, kind |-> "insert", merchant_id |-> new.merchant_id,
     payment_id |-> new.payment_id, new |-> Some(new), upd |-> None, call |-> call]

\* this.update_query(&conn, payment_intent).to_field_value_pairs()
update_query(this, upd, call) ==
    [id |-> 0, kind |-> "update", merchant_id |-> this.merchant_id,
     payment_id |-> this.payment_id, new |-> None, upd |-> Some(upd), call |-> call]

\* the drainer executing one entry's statement against the relational store
ApplyEntry(table, e, now) ==
    IF e.kind = "insert"
    THEN PgInsert(table, e.new[1], now)
    ELSE PgUpdate(table, e.merchant_id, e.payment_id, e.upd[1])

(***************************************************************************)
(* Callers of the storage interface.                                       *)
(***************************************************************************)
IdleCaller ==
    [pc |-> "idle", op |-> "none", scheme |-> "none", merchant_id |-> "", payment_id |-> "",
     new |-> None, upd |-> None, row |-> None, res |-> "none", ret |-> None,
     held |-> None, call |-> 0, began |-> 0, cache_written |-> FALSE,
     appends |-> 0, append_ok |-> FALSE, key_existed |-> FALSE, reply |-> "none",
     list |-> None]

\* the locals of a call that starts: the caller keeps the row it holds
StartCall(c, op, scheme, merchant_id, payment_id) ==
    [IdleCaller EXCEPT
        !.op = op, !.scheme = scheme, !.merchant_id = merchant_id,
        !.payment_id = payment_id, !.held = callers[c].held,
        !.call = calls + 1, !.began = Len(log)]

\* the history's record of a returned call; upd is its changeset, if any
LogOf(cr, upd) ==
    [call |-> cr.call, op |-> cr.op, scheme |-> cr.scheme, merchant_id |-> cr.merchant_id,
     payment_id |-> cr.payment_id, res |-> cr.res, upd |-> upd, began |-> cr.began]

\* the call returns Err(kind)
ReturnErr(cr, kind) ==
    [cr EXCEPT !.pc = "idle", !.res = kind, !.new = None, !.row = None, !.upd = None]

\* the call returns Ok(row)
ReturnOk(cr, row) ==
    [cr EXCEPT !.pc = "idle", !.res = "Ok", !.ret = Some(row), !.held = Some(row),
               !.new = None, !.row = None, !.upd = None]

CanStart(c) == callers[c].pc = "idle" /\ calls < MaxCalls


\* HSETNX key "pi" value on the redis state kv: the reply (1 set, 0 the
\* field exists) and the state after it
hsetnx_overwriting(kv, key, value) ==
    [n |-> 1, kv |-> IF key \in DOMAIN kv THEN [kv EXCEPT ![key] = value]
                     ELSE kv @@ (key :> value)]

hsetnx(kv, key, value) ==
    IF key \in DOMAIN kv
    THEN [n |-> 0, kv |-> kv]
    ELSE [n |-> 1, kv |-> kv @@ (key :> value)]

hset_if_absent(kv, key, value) ==
    IF key \in DOMAIN kv THEN kv ELSE kv @@ (key :> value)

\* HSET key "pi" value: the state after it
hset(kv, key, value) ==
    IF key \in DOMAIN kv THEN [kv EXCEPT ![key] = value] ELSE kv @@ (key :> value)

Finish(c, cr, upd) ==
    /\ callers' = [callers EXCEPT ![c] = cr]
    /\ log' = Append(log, LogOf(cr, upd))

(***************************************************************************)
(* Store::insert_payment_intent, MerchantStorageScheme::RedisKv.           *)
(***************************************************************************)
\* what the call returns once the stream append has answered: the ? after
\* stream_append_entry, then Ok(created_intent)
InsertAppendReturn_ignoring_append(cr, reply) == ReturnOk(cr, cr.row[1])

InsertAppendReturn(cr, reply) ==
    IF reply = "ok" THEN ReturnOk(cr, cr.row[1]) ELSE ReturnErr(cr, "KVError")

\* HSETNX key "pi" value.  reply "err" is a redis error (or a reply other
\* than 0 and 1): the command wrote nothing.
InsertHsetnx(c, new, now1, now2, reply) ==
    /\ CanStart(c)
    /\ storage_scheme[new.merchant_id] = "RedisKv"
    /\ calls' = calls + 1
    /\ LET key == CacheKey(new.payment_id, new.merchant_id)
           row == created_intent(new, now1, now2)
           cr == [StartCall(c, "insert", "RedisKv", new.merchant_id, new.payment_id)
                     EXCEPT !.new = Some(new), !.row = Some(row)]
           set == hsetnx(cache, key, to_string(row))
       IN  IF reply = "err"
           THEN /\ Finish(c, ReturnErr(cr, "KVError"), None)
                /\ UNCHANGED cache
           ELSE IF set.n = 0
           THEN /\ Finish(c, ReturnErr(cr, "DuplicateValue"), None)
                /\ cache' = set.kv
           ELSE /\ cache' = set.kv
                /\ callers' = [callers EXCEPT ![c] =
                                  [cr EXCEPT !.pc = "insert_append", !.cache_written = TRUE]]
                /\ UNCHANGED log
    /\ UNCHANGED <<auxVars, storage_scheme, stream, drained, pg, outsideStore>>

InsertAppend_removing_cache_entry(c, reply) ==
    /\ callers[c].pc = "insert_append"
    /\ LET cr == callers[c]
           query == insert_diesel_query(cr.new[1], cr.call)
           key == CacheKey(cr.payment_id, cr.merchant_id)
           tried == [cr EXCEPT !.appends = IF reply = "query_err" THEN @ ELSE @ + 1,
                               !.append_ok = (reply = "ok")]
       IN  /\ stream' = IF reply = "ok"
                        THEN stream_append_entry(InsertStream(cr.row[1]), query)
                        ELSE stream
           /\ cache' = IF reply = "ok" THEN cache
                       ELSE [k \in DOMAIN cache \ {key} |-> cache[k]]
           /\ Finish(c, InsertAppendReturn(tried, reply), None)
    /\ UNCHANGED <<auxVars, storage_scheme, drained, pg, calls, outsideStore>>

\* insert_diesel_query, shard_key, drainer_stream and XADD.  reply
\* "query_err" is a failed insert_diesel_query, "append_err" a failed XADD.
InsertAppend(c, reply) ==
    /\ callers[c].pc = "insert_append"
    /\ LET cr == callers[c]
           query == insert_diesel_query(cr.new[1], cr.call)
           tried == [cr EXCEPT !.appends = IF reply = "query_err" THEN @ ELSE @ + 1,
                               !.append_ok = (reply = "ok")]
       IN  /\ stream' = IF reply = "ok"
                        THEN stream_append_entry(InsertStream(cr.row[1]), query)
                        ELSE stream
           /\ Finish(c, InsertAppendReturn(tried, reply), None)
    /\ UNCHANGED <<auxVars, storage_scheme, cache, drained, pg, calls, outsideStore>>

(***************************************************************************)
(* Store::update_payment_intent, MerchantStorageScheme::RedisKv.  this is  *)
(* the row the caller holds from its last successful call.                 *)
(***************************************************************************)
UpdateAppendReturn_returning_held(cr, reply) ==
    IF reply = "ok" THEN ReturnOk(cr, cr.held[1]) ELSE ReturnErr(cr, "KVError")

UpdateAppendReturn(cr, reply) ==
    IF reply = "ok" THEN ReturnOk(cr, cr.row[1]) ELSE ReturnErr(cr, "KVError")

\* HSET key "pi" value, whatever the key holds
UpdateHset(c, upd, reply) ==
    /\ CanStart(c)
    /\ callers[c].held # None
    /\ LET this == callers[c].held[1]
           key == CacheKey(this.payment_id, this.merchant_id)
           updated_intent == apply_changeset(upd, this)
           cr == [StartCall(c, "update", "RedisKv", this.merchant_id, this.payment_id)
                     EXCEPT !.upd = Some(upd), !.row = Some(updated_intent)]
       IN  /\ storage_scheme[this.merchant_id] = "RedisKv"
           /\ calls' = calls + 1
           /\ IF reply = "err"
              THEN /\ Finish(c, ReturnErr(cr, "KVError"), Some(upd))
                   /\ UNCHANGED cache
              ELSE /\ cache' = hset(cache, key, to_string(updated_intent))
                   /\ callers' = [callers EXCEPT ![c] =
                                     [cr EXCEPT !.pc = "update_append", !.cache_written = TRUE,
                                                !.key_existed = (key \in DOMAIN cache)]]
                   /\ UNCHANGED log
    /\ UNCHANGED <<auxVars, storage_scheme, stream, drained, pg, outsideStore>>

\* update_query, shard_key, drainer_stream and XADD
UpdateAppend(c, reply) ==
    /\ callers[c].pc = "update_append"
    /\ LET cr == callers[c]
           this == cr.held[1]
           query == update_query(this, cr.upd[1], cr.call)
           tried == [cr EXCEPT !.appends = IF reply = "query_err" THEN @ ELSE @ + 1,
                               !.append_ok = (reply = "ok")]
       IN  /\ stream' = IF reply = "ok"
                        THEN stream_append_entry(UpdateStream(cr.row[1]), query)
                        ELSE stream
           /\ Finish(c, UpdateAppendReturn(tried, reply), cr.upd)
    /\ UNCHANGED <<auxVars, storage_scheme, cache, drained, pg, calls, outsideStore>>

(***************************************************************************)
(* Store::find_payment_intent_by_payment_id_merchant_id, RedisKv: HGET.    *)
(***************************************************************************)
FindHget_with_relational_fallback(c, payment_id, merchant_id, reply) ==
    /\ CanStart(c)
    /\ storage_scheme[merchant_id] = "RedisKv"
    /\ calls' = calls + 1
    /\ LET key == CacheKey(payment_id, merchant_id)
           cr == [StartCall(c, "find", "RedisKv", merchant_id, payment_id)
                     EXCEPT !.reply = reply]
           hit == PgRows(pg, merchant_id, payment_id)
       IN  callers' = [callers EXCEPT ![c] =
               IF reply = "err" THEN ReturnErr(cr, "KVError")
               ELSE IF key \in DOMAIN cache THEN ReturnOk(cr, from_str(cache[key]))
               ELSE IF hit # {} THEN ReturnOk(cr, CHOOSE row \in hit : TRUE)
               ELSE ReturnErr(cr, "ValueNotFound")]
    /\ UNCHANGED <<auxVars, storage_scheme, kvVars, pg, log, outsideStore>>

\* HGET key "pi": reply "err" is a redis error other than NotFound; a key
\* or field that is absent is the error kind NotFound
FindHget(c, payment_id, merchant_id, reply) ==
    /\ CanStart(c)
    /\ storage_scheme[merchant_id] = "RedisKv"
    /\ calls' = calls + 1
    /\ LET key == CacheKey(payment_id, merchant_id)
           cr == [StartCall(c, "find", "RedisKv", merchant_id, payment_id)
                     EXCEPT !.reply = reply]
       IN  callers' = [callers EXCEPT ![c] =
               IF reply = "err" THEN ReturnErr(cr, "KVError")
               ELSE IF key \notin DOMAIN cache THEN ReturnErr(cr, "ValueNotFound")
               ELSE ReturnOk(cr, from_str(cache[key]))]
    /\ UNCHANGED <<auxVars, storage_scheme, kvVars, pg, log, outsideStore>>

(***************************************************************************)
(* The three operations under MerchantStorageScheme::PostgresOnly: one     *)
(* statement on the relational store each.                                 *)
(***************************************************************************)
InsertPostgres_writing_cache(c, new, now) ==
    /\ CanStart(c)
    /\ storage_scheme[new.merchant_id] = "PostgresOnly"
    /\ calls' = calls + 1
    /\ pg' = PgInsert(pg, new, now)
    /\ cache' = hset(cache, CacheKey(new.payment_id, new.merchant_id),
                     to_string(PgInsertedRow(pg, new, now)))
    /\ LET cr == StartCall(c, "insert", "PostgresOnly", new.merchant_id, new.payment_id)
       IN  Finish(c, IF PgRows(pg, new.merchant_id, new.payment_id) # {}
                     THEN ReturnErr(cr, "DuplicateValue")
                     ELSE ReturnOk(cr, PgInsertedRow(pg, new, now)), None)
    /\ UNCHANGED <<auxVars, storage_scheme, stream, drained, outsideStore>>

InsertPostgres(c, new, now) ==
    /\ CanStart(c)
    /\ storage_scheme[new.merchant_id] = "PostgresOnly"
    /\ calls' = calls + 1
    /\ pg' = PgInsert(pg, new, now)
    /\ LET cr == StartCall(c, "insert", "PostgresOnly", new.merchant_id, new.payment_id)
       IN  Finish(c, IF PgRows(pg, new.merchant_id, new.payment_id) # {}
                     THEN ReturnErr(cr, "DuplicateValue")
                     ELSE ReturnOk(cr, PgInsertedRow(pg, new, now)), None)
    /\ UNCHANGED <<auxVars, storage_scheme, kvVars, outsideStore>>

UpdatePostgres(c, upd) ==
    /\ CanStart(c)
    /\ callers[c].held # None
    /\ LET this == callers[c].held[1]
           cr == [StartCall(c, "update", "PostgresOnly", this.merchant_id, this.payment_id)
                     EXCEPT !.upd = Some(upd)]
           hit == PgRows(pg, this.merchant_id, this.payment_id)
       IN  /\ storage_scheme[this.merchant_id] = "PostgresOnly"
           /\ calls' = calls + 1
           /\ pg' = PgUpdate(pg, this.merchant_id, this.payment_id, upd)
           /\ Finish(c, IF hit = {}
                        THEN ReturnErr(cr, "ValueNotFound")
                        ELSE ReturnOk(cr, apply_changeset(upd, CHOOSE row \in hit : TRUE)),
                     Some(upd))
    /\ UNCHANGED <<auxVars, storage_scheme, kvVars, outsideStore>>

FindPostgres(c, payment_id, merchant_id) ==
    /\ CanStart(c)
    /\ storage_scheme[merchant_id] = "PostgresOnly"
    /\ calls' = calls + 1
    /\ LET cr == StartCall(c, "find", "PostgresOnly", merchant_id, payment_id)
           hit == PgRows(pg, merchant_id, payment_id)
       IN  callers' = [callers EXCEPT ![c] =
               IF hit = {} THEN ReturnErr(cr, "ValueNotFound")
               ELSE ReturnOk(cr, CHOOSE row \in hit : TRUE)]
    /\ UNCHANGED <<auxVars, storage_scheme, kvVars, pg, log, outsideStore>>

(***************************************************************************)
(* Store::filter_payment_intent_by_constraints.                            *)
(***************************************************************************)
\* PaymentIntent::filter_by_constraints: the merchant's rows
filter_by_constraints(table, merchant_id) ==
    {row \in table : row.merchant_id = merchant_id}

FilterPostgres(c, merchant_id) ==
    /\ CanStart(c)
    /\ storage_scheme[merchant_id] = "PostgresOnly"
    /\ calls' = calls + 1
    /\ LET cr == StartCall(c, "filter", "PostgresOnly", merchant_id, "")
       IN  callers' = [callers EXCEPT ![c] =
               [cr EXCEPT !.res = "Ok", !.list = Some(filter_by_constraints(pg, merchant_id))]]
    /\ UNCHANGED <<auxVars, storage_scheme, kvVars, pg, log, outsideStore>>

FilterRedisKv_returning_empty_list(c, merchant_id) ==
    /\ CanStart(c)
    /\ storage_scheme[merchant_id] = "RedisKv"
    /\ calls' = calls + 1
    /\ LET cr == StartCall(c, "filter", "RedisKv", merchant_id, "")
       IN  callers' = [callers EXCEPT ![c] = [cr EXCEPT !.res = "Ok", !.list = Some({})]]
    /\ UNCHANGED <<auxVars, storage_scheme, kvVars, pg, log, outsideStore>>

\* the RedisKv arm: Err(errors::StorageError::KVError.into())
FilterRedisKv(c, merchant_id) ==
    /\ CanStart(c)
    /\ storage_scheme[merchant_id] = "RedisKv"
    /\ calls' = calls + 1
    /\ LET cr == StartCall(c, "filter", "RedisKv", merchant_id, "")
       IN  callers' = [callers EXCEPT ![c] = ReturnErr(cr, "KVError")]
    /\ UNCHANGED <<auxVars, storage_scheme, kvVars, pg, log, outsideStore>>

(***************************************************************************)
(* The dashboard user's handlers of core/user.rs, for one user. Each       *)
(* handler runs from entry to return; its store and redis calls answer     *)
(* "ok" or "err".                                                          *)
(***************************************************************************)
Passwords == {"pw1", "pw2"}

Secrets == {"s1"}

\* utils::user::password::generate_password_hash
generate_password_hash(password) == <<"hash", password>>

compare_password_accepting_any(stored, password) == TRUE

\* UserFromStorage::compare_password
compare_password(stored, password) == stored = generate_password_hash(password)

\* domain::types::encrypt of the secret under the user's key
encrypt(secret) == <<"encrypted", secret>>

log_and_discard_propagating(reply) == reply = "ok"

\* let _ = <side effect>.await.map_err(|e| logger::error!(?e)): the handler
\* goes on whatever the reply
log_and_discard(reply) == TRUE

\* the side effects, of those attempted in order, that returned Err
FailedOf(attempts) == {attempts[i][1] : i \in {k \in DOMAIN attempts : attempts[k][2] # "ok"}}

\* whether the handler is still running after the side effects attempted
RECURSIVE AllDiscarded(_)
AllDiscarded(attempts) ==
    IF attempts = <<>> THEN TRUE
    ELSE log_and_discard(Head(attempts)[2]) /\ AllDiscarded(Tail(attempts))

\* the handler's return: an early return, the update's error, or StatusOk
\* after the side effects
Returns(op, early, update_reply, attempts) ==
    [op |-> op,
     res |-> IF early # "none" THEN early
             ELSE IF update_reply # "ok" THEN "InternalServerError"
             ELSE IF AllDiscarded(attempts) THEN "StatusOk"
             ELSE "InternalServerError",
     updated |-> early = "none" /\ update_reply = "ok",
     failed |-> IF early = "none" /\ update_reply = "ok" THEN FailedOf(attempts) ELSE {}]

\* auth::blacklist::insert_user_in_blacklist / insert_email_token_in_blacklist
Blacklisted(blacklist, what, reply) ==
    IF reply = "ok" THEN blacklist \cup {what} ELSE blacklist

\* what no handler of the dashboard user touches
otherThanDashboard ==
    <<healthVars, customers, refundVars, adminVars, storage_scheme, kvVars, pg, callVars,
      outsideStore>>

otherThanUser == <<otherThanDashboard, invite, sessionVars>>

change_password(old_password, new_password, find_reply, update_reply, blacklist_reply, metadata_reply) ==
    /\ LET early == IF find_reply # "ok" THEN "InternalServerError"
                 ELSE IF ~compare_password(user_state.password, old_password)
                      THEN "InvalidOldPassword"
                 ELSE IF old_password = new_password THEN "ChangePasswordError"
                 ELSE "none"
           call == Returns("change_password", early, update_reply,
                        <<<<"insert_user_in_blacklist", blacklist_reply>>,
                          <<"delete_dashboard_metadata", metadata_reply>>>>)
       IN  user_state' =
               IF ~call.updated THEN [user_state EXCEPT !.call = call]
               ELSE [user_state EXCEPT
                        !.password = generate_password_hash(new_password),
                        !.blacklist = Blacklisted(@, "user", blacklist_reply),
                        !.change_password_required =
                            IF call.res = "StatusOk" /\ metadata_reply = "ok" THEN FALSE ELSE @,
                        !.call = call]
    /\ UNCHANGED otherThanUser

rotate_password(password, find_reply, update_reply, blacklist_reply) ==
    /\ LET early == IF find_reply # "ok" THEN "InternalServerError"
                 ELSE IF compare_password(user_state.password, password)
                      THEN "ChangePasswordError"
                 ELSE "none"
           call == Returns("rotate_password", early, update_reply,
                        <<<<"insert_user_in_blacklist", blacklist_reply>>>>)
       IN  user_state' =
               IF ~call.updated THEN [user_state EXCEPT !.call = call]
               ELSE [user_state EXCEPT
                        !.password = generate_password_hash(password),
                        !.blacklist = Blacklisted(@, "user", blacklist_reply),
                        !.call = call]
    /\ UNCHANGED otherThanUser

\* reset_password with the email token of the reset link: token_ok is
\* decode_jwt's verdict, inviter the token's merchant id if any
reset_password(password, token_ok, check_reply, inviter, update_reply, role_reply, token_reply, blacklist_reply) ==
    /\ LET early == IF ~token_ok THEN "LinkInvalid"
                 ELSE IF check_reply # "ok" THEN "InternalServerError"
                 ELSE IF "email_token" \in user_state.blacklist THEN "LinkInvalid"
                 ELSE "none"
           call == Returns("reset_password", early, update_reply,
                        <<<<"insert_email_token_in_blacklist", token_reply>>,
                          <<"insert_user_in_blacklist", blacklist_reply>>>>)
       IN  user_state' =
               IF ~call.updated THEN [user_state EXCEPT !.call = call]
               ELSE [user_state EXCEPT
                        !.password = generate_password_hash(password),
                        !.role_status =
                            IF inviter # None /\ role_reply = "ok" THEN "Active" ELSE @,
                        !.blacklist =
                            IF log_and_discard(token_reply)
                            THEN Blacklisted(Blacklisted(@, "email_token", token_reply),
                                             "user", blacklist_reply)
                            ELSE @,
                        !.call = call]
    /\ UNCHANGED otherThanUser

\* begin_totp: a new secret is put in redis for the user to confirm
begin_totp(secret, find_reply, insert_reply) ==
    /\ LET res == IF find_reply # "ok" THEN "InternalServerError"
               ELSE IF user_state.totp_status = "Set" THEN "Ok"
               ELSE IF insert_reply # "ok" THEN "InternalServerError"
               ELSE "Ok"
           stored == find_reply = "ok" /\ user_state.totp_status # "Set" /\ insert_reply = "ok"
       IN  user_state' = [user_state EXCEPT
               !.redis_totp_secret = IF stored THEN Some(secret) ELSE @,
               !.call = [op |-> "begin_totp", res |-> res, updated |-> FALSE, failed |-> {}]]
    /\ UNCHANGED otherThanUser

\* update_totp: totp_ok is whether req.totp is the current code of the
\* pending secret
update_totp(totp_ok, find_reply, get_reply, key_store_reply, update_reply, delete_reply, insert_reply) ==
    /\ LET early == IF find_reply # "ok" \/ get_reply # "ok" THEN "InternalServerError"
                 ELSE IF user_state.redis_totp_secret = None THEN "TotpSecretNotFound"
                 ELSE IF ~totp_ok THEN "InvalidTotp"
                 ELSE IF key_store_reply # "ok" THEN "InternalServerError"
                 ELSE "none"
           call == Returns("update_totp", early, update_reply,
                        <<<<"delete_totp_secret_from_redis", delete_reply>>,
                          <<"insert_totp_in_redis", insert_reply>>>>)
       IN  user_state' =
               IF ~call.updated THEN [user_state EXCEPT !.call = call]
               ELSE [user_state EXCEPT
                        !.totp_secret = Some(encrypt(user_state.redis_totp_secret[1])),
                        !.redis_totp_secret =
                            IF delete_reply = "ok" THEN None ELSE @,
                        !.redis_totp =
                            IF log_and_discard(delete_reply) /\ insert_reply = "ok"
                            THEN TRUE ELSE @,
                        !.call = call]
    /\ UNCHANGED otherThanUser

(***************************************************************************)
(* The two-factor handlers of core/user.rs for the same user. A recovery   *)
(* code is named by the generation that made it and its place in that      *)
(* generation; the user's row holds the codes hashed.                      *)
(* verify_recovery_code is taken one store or redis call at a time, for    *)
(* two concurrent requests; so is signout.                                 *)
(***************************************************************************)
MaxGenerations == 1

NumRecoveryCodes == 2

MaxVerifyCalls == 2

\* domain::RecoveryCodes::generate_new, for the generation-th call
generate_new(generation) == [k \in 1..NumRecoveryCodes |-> <<generation, k>>]

\* RecoveryCodes::get_hashed
get_hashed(recovery_codes) ==
    [k \in DOMAIN recovery_codes |-> generate_password_hash(recovery_codes[k])]

\* the codes a request can carry: every code ever generated and one that
\* never was
RequestCodes ==
    {<<g, k>> : g \in 1..MaxGenerations, k \in 1..NumRecoveryCodes} \cup {<<0, 0>>}

\* utils::user::password::get_index_for_correct_recovery_code: the first
\* index whose hash the candidate matches (from 1 here)
get_index_for_correct_recovery_code(candidate, recovery_codes) ==
    LET matching == {i \in DOMAIN recovery_codes : compare_password(recovery_codes[i], candidate)}
    IN  IF matching = {} THEN None
        ELSE Some(CHOOSE i \in matching : \A j \in matching : i <= j)

\* Vec::remove(index)
remove(list, index) ==
    [i \in 1..(Len(list) - 1) |-> IF i < index THEN list[i] ELSE list[i + 1]]

IdleSession ==
    [pc |-> "idle", recovery_code |-> <<0, 0>>, recovery_codes |-> <<>>, matching_index |-> 0,
     res |-> "none"]

SessionReturns(session, res) == [session EXCEPT !.pc = "idle", !.res = res]

otherThanSessions == <<otherThanDashboard, invite, signout_call>>

\* generate_recovery_codes: new codes replace the stored ones once the TOTP
\* marker is in redis
generate_recovery_codes(check_reply, hash_reply, update_reply) ==
    /\ user_state.generations < MaxGenerations
    /\ LET res == IF check_reply # "ok" THEN "InternalServerError"
               ELSE IF ~user_state.redis_totp THEN "TotpRequired"
               ELSE IF hash_reply # "ok" \/ update_reply # "ok" THEN "InternalServerError"
               ELSE "Ok"
           generation == user_state.generations + 1
       IN  user_state' = [user_state EXCEPT
               !.generations = generation,
               !.recovery_codes =
                   IF res = "Ok" THEN Some(get_hashed(generate_new(generation))) ELSE @,
               !.call = [op |-> "generate_recovery_codes", res |-> res,
                         updated |-> res = "Ok", failed |-> {}]]
    /\ UNCHANGED otherThanUser

\* verify_recovery_code up to the index of the matching code
VerifyRecoveryCodeFind(c, recovery_code, find_reply, hash_reply) ==
    /\ verify_calls.sessions[c].pc = "idle"
    /\ verify_calls.started < MaxVerifyCalls
    /\ LET early == IF find_reply # "ok" THEN "InternalServerError"
                 ELSE IF user_state.totp_status # "Set" THEN "TwoFactorAuthNotSetup"
                 ELSE IF user_state.recovery_codes = None THEN "InternalServerError"
                 ELSE IF hash_reply # "ok" THEN "InternalServerError"
                 ELSE IF get_index_for_correct_recovery_code(
                             recovery_code, user_state.recovery_codes[1]) = None
                      THEN "InvalidRecoveryCode"
                 ELSE "none"
           session == [IdleSession EXCEPT !.recovery_code = recovery_code]
       IN  verify_calls' = [verify_calls EXCEPT
               !.started = @ + 1,
               !.sessions[c] =
                   IF early # "none" THEN SessionReturns(session, early)
                   ELSE [session EXCEPT
                            !.pc = "insert_recovery_code_in_redis",
                            !.recovery_codes = user_state.recovery_codes[1],
                            !.matching_index =
                                get_index_for_correct_recovery_code(
                                    recovery_code, user_state.recovery_codes[1])[1]]]
    /\ UNCHANGED <<user_state, otherThanSessions>>

\* insert_recovery_code_in_redis, then recovery_codes.remove(matching_index)
VerifyRecoveryCodeInsert(c, reply) ==
    /\ verify_calls.sessions[c].pc = "insert_recovery_code_in_redis"
    /\ LET session == verify_calls.sessions[c]
       IN  verify_calls' = [verify_calls EXCEPT
               !.sessions[c] =
                   IF reply # "ok" THEN SessionReturns(session, "InternalServerError")
                   ELSE [session EXCEPT
                            !.pc = "update_user_by_user_id",
                            !.recovery_codes = remove(@, session.matching_index)]]
    /\ user_state' = [user_state EXCEPT
           !.redis_recovery_code = IF reply = "ok" THEN TRUE ELSE @]
    /\ UNCHANGED otherThanSessions

\* update_user_by_user_id with the remaining codes, then StatusOk
VerifyRecoveryCodeUpdate(c, reply) ==
    /\ verify_calls.sessions[c].pc = "update_user_by_user_id"
    /\ LET session == verify_calls.sessions[c]
       IN  /\ verify_calls' = [verify_calls EXCEPT
                  !.sessions[c] =
                      SessionReturns(session, IF reply = "ok" THEN "Ok" ELSE "InternalServerError"),
                  !.succeeded[session.recovery_code] = IF reply = "ok" THEN @ + 1 ELSE @]
           /\ user_state' = [user_state EXCEPT
                  !.recovery_codes = IF reply = "ok" THEN Some(session.recovery_codes) ELSE @]
    /\ UNCHANGED otherThanSessions

two_factor_done_without_markers(totp_reply, recovery_reply) == TRUE

\* whether a TOTP marker or a recovery-code marker is in redis, as
\* check_totp_in_redis and check_recovery_code_in_redis answer
two_factor_done(totp_reply, recovery_reply) ==
    user_state.redis_totp \/ user_state.redis_recovery_code

\* whether one of the redis checks that is made fails
two_factor_check_failed(totp_reply, recovery_reply) ==
    \/ totp_reply # "ok"
    \/ ~user_state.redis_totp /\ recovery_reply # "ok"

\* terminate_two_factor_auth: token_reply is the answer of the next flow's
\* token generation
terminate_two_factor_auth(skip_two_factor_auth, find_reply, totp_reply, recovery_reply, update_reply, token_reply) ==
    /\ LET early == IF find_reply # "ok" THEN "InternalServerError"
                 ELSE IF skip_two_factor_auth THEN "none"
                 ELSE IF two_factor_check_failed(totp_reply, recovery_reply)
                      THEN "InternalServerError"
                 ELSE IF ~two_factor_done(totp_reply, recovery_reply)
                      THEN "TwoFactorAuthRequired"
                 ELSE IF user_state.recovery_codes = None THEN "TwoFactorAuthNotSetup"
                 ELSE "none"
           updates == early = "none" /\ ~skip_two_factor_auth /\ user_state.totp_status # "Set"
           res == IF early # "none" THEN early
                  ELSE IF updates /\ update_reply # "ok" THEN "InternalServerError"
                  ELSE IF token_reply # "ok" THEN "InternalServerError"
                  ELSE "Ok"
       IN  user_state' = [user_state EXCEPT
               !.totp_status = IF updates /\ update_reply = "ok" THEN "Set" ELSE @,
               !.call = [op |-> "terminate_two_factor_auth", res |-> res,
                         updated |-> updates /\ update_reply = "ok", failed |-> {}]]
    /\ UNCHANGED otherThanUser

\* the redis and blacklist calls of signout, in the order of the handler
SignoutSteps ==
    <<"delete_totp_from_redis", "delete_recovery_code_from_redis",
      "delete_totp_secret_from_redis", "insert_user_in_blacklist">>

\* `?` after a step of signout: the error is returned, or the next step is
\* due; after the last step remove_cookie_response answers
after_step_ignoring_error(call, step, reply) ==
    IF step = Len(SignoutSteps)
    THEN [pc |-> "idle", done |-> Append(call.done, SignoutSteps[step]), res |-> "Ok"]
    ELSE [pc |-> SignoutSteps[step + 1], done |-> Append(call.done, SignoutSteps[step]),
          res |-> "none"]

after_step(call, step, reply) ==
    IF reply # "ok" THEN [pc |-> "idle", done |-> call.done, res |-> "InternalServerError"]
    ELSE IF step = Len(SignoutSteps)
    THEN [pc |-> "idle", done |-> Append(call.done, SignoutSteps[step]), res |-> "Ok"]
    ELSE [pc |-> SignoutSteps[step + 1], done |-> Append(call.done, SignoutSteps[step]),
          res |-> "none"]

otherThanSignout == <<otherThanDashboard, invite, verify_calls>>

\* signout's entry and delete_totp_from_redis
SignoutDeleteTotp(reply) ==
    /\ signout_call.pc = "idle"
    /\ signout_call' = after_step([signout_call EXCEPT !.done = <<>>], 1, reply)
    /\ user_state' = [user_state EXCEPT !.redis_totp = IF reply = "ok" THEN FALSE ELSE @]
    /\ UNCHANGED otherThanSignout

SignoutDeleteRecoveryCode(reply) ==
    /\ signout_call.pc = "delete_recovery_code_from_redis"
    /\ signout_call' = after_step(signout_call, 2, reply)
    /\ user_state' = [user_state EXCEPT
           !.redis_recovery_code = IF reply = "ok" THEN FALSE ELSE @]
    /\ UNCHANGED otherThanSignout

SignoutDeleteTotpSecret(reply) ==
    /\ signout_call.pc = "delete_totp_secret_from_redis"
    /\ signout_call' = after_step(signout_call, 3, reply)
    /\ user_state' = [user_state EXCEPT
           !.redis_totp_secret = IF reply = "ok" THEN None ELSE @]
    /\ UNCHANGED otherThanSignout

\* insert_user_in_blacklist, then remove_cookie_response
SignoutInsertBlacklist(reply) ==
    /\ signout_call.pc = "insert_user_in_blacklist"
    /\ signout_call' = after_step(signout_call, 4, reply)
    /\ user_state' = [user_state EXCEPT !.blacklist = Blacklisted(@, "user", reply)]
    /\ UNCHANGED otherThanSignout

(***************************************************************************)
(* The merchant handlers of core/user.rs for the same user, built with the *)
(* email feature: create_merchant_account, switch_merchant_id, and the     *)
(* invitation of the user by another merchant's admin. A user-role row is  *)
(* named by its merchant; the user holds the tokens issued so far.         *)
(***************************************************************************)
TenancyMerchants == {"M1", "M2", "M3"}

\* the last call: its request (the merchant asked for, and for
\* switch_merchant_id the merchant and the kind of role of the token used),
\* its result, the token it returned and whether it inserted an account
NoTenancyCall ==
    [op |-> "none", res |-> "none", merchant_id |-> "", from_merchant_id |-> "",
     is_internal |-> FALSE, token |-> None, created |-> FALSE]

TenancyReturns(op, res, merchant_id, token, created) ==
    [NoTenancyCall EXCEPT !.op = op, !.res = res, !.merchant_id = merchant_id,
                          !.token = token, !.created = created]

otherThanAdmin ==
    <<healthVars, customers, dashboardVars, refundVars, sessionVars, storage_scheme, kvVars, pg,
      callVars, outsideStore>>

\* delete_merchant_account_by_merchant_id
delete_merchant_account(merchant_accounts, merchant_id, reply) ==
    IF reply = "ok" THEN merchant_accounts \ {merchant_id} ELSE merchant_accounts

\* create_merchant_account for the new merchant merchant_id: the account is
\* inserted, then the user's role; a failed role insert deletes the account
create_merchant_account(merchant_id, find_reply, insert_reply, role_reply, delete_reply) ==
    /\ LET inserted == /\ find_reply = "ok" /\ insert_reply = "ok"
                       /\ merchant_id \notin tenancy.merchant_accounts
           role_inserted == /\ inserted /\ role_reply = "ok"
                            /\ tenancy.user_roles[merchant_id] = "none"
           res == IF find_reply # "ok" THEN "InternalServerError"
                  ELSE IF ~inserted THEN "InternalServerError"
                  ELSE IF ~role_inserted THEN "RoleInsertionError"
                  ELSE "StatusOk"
       IN  tenancy' = [tenancy EXCEPT
               !.merchant_accounts =
                   IF ~inserted THEN @
                   ELSE IF role_inserted THEN @ \cup {merchant_id}
                   ELSE delete_merchant_account(@ \cup {merchant_id}, merchant_id, delete_reply),
               !.user_roles[merchant_id] = IF role_inserted THEN "Active" ELSE @,
               !.call = TenancyReturns("create_merchant_account", res, merchant_id, None,
                                       inserted)]
    /\ UNCHANGED <<otherThanAdmin, tables>>

\* handle_existing_user_invitation by an admin of merchant_id: the user gets
\* a role there with status InvitationSent
handle_existing_user_invitation(merchant_id, reply) ==
    /\ merchant_id \in tenancy.merchant_accounts
    /\ LET res == IF reply # "ok" THEN "InternalServerError"
                  ELSE IF tenancy.user_roles[merchant_id] # "none" THEN "UserExists"
                  ELSE "Ok"
       IN  tenancy' = [tenancy EXCEPT
               !.user_roles[merchant_id] = IF res = "Ok" THEN "InvitationSent" ELSE @,
               !.call = TenancyReturns("handle_existing_user_invitation", res, merchant_id,
                                       None, FALSE)]
    /\ UNCHANGED <<otherThanAdmin, tables>>

active_user_roles_with_any_status(user_roles) ==
    {m \in DOMAIN user_roles : user_roles[m] # "none"}

\* user_roles.into_iter().filter(|role| role.status == UserStatus::Active)
active_user_roles(user_roles) == {m \in DOMAIN user_roles : user_roles[m] = "Active"}

\* switch_merchant_id with the token of merchant from_merchant_id, whose role
\* is internal or not, for the merchant merchant_id
switch_merchant_id(from_merchant_id, merchant_id, is_internal, find_reply, role_info_reply, store_reply, token_reply, cookie_reply) ==
    /\ from_merchant_id \in tenancy.tokens
    /\ LET early == IF from_merchant_id = merchant_id THEN "InvalidRoleOperationWithMessage"
                 ELSE IF find_reply # "ok" \/ role_info_reply # "ok" THEN "InternalServerError"
                 ELSE IF store_reply # "ok" THEN "InternalServerError"
                 ELSE IF is_internal /\ merchant_id \notin tenancy.merchant_accounts
                      THEN "MerchantIdNotFound"
                 ELSE IF ~is_internal /\ merchant_id \notin active_user_roles(tenancy.user_roles)
                      THEN "InvalidRoleOperation"
                 ELSE IF token_reply # "ok" THEN "InternalServerError"
                 ELSE "none"
           res == IF early # "none" THEN early
                  ELSE IF cookie_reply # "ok" THEN "InternalServerError"
                  ELSE "Ok"
       IN  tenancy' = [tenancy EXCEPT
               !.permission_cache =
                   IF early = "none" /\ ~is_internal THEN @ \cup {merchant_id} ELSE @,
               !.tokens = IF res = "Ok" THEN @ \cup {merchant_id} ELSE @,
               !.call = [TenancyReturns("switch_merchant_id", res, merchant_id,
                                        IF res = "Ok" THEN Some(merchant_id) ELSE None, FALSE)
                            EXCEPT !.from_merchant_id = from_merchant_id,
                                   !.is_internal = is_internal]]
    /\ UNCHANGED <<otherThanAdmin, tables>>

(***************************************************************************)
(* The queries of types/storage/query/configs.rs and                       *)
(* merchant_connector_account.rs, for one config key and one connector     *)
(* account. The store answers a query ("ok") or fails ("err"); a caller    *)
(* keeps the connector account row it read.                                *)
(***************************************************************************)
ConfigValues == {"v1", "v2"}

ConnectorNames == {"n1", "n2"}

\* ConfigUpdate::Update { config: Option<String> }
ConfigUpdates == {None} \cup {Some(v) : v \in ConfigValues}

\* MerchantConnectorAccountUpdate::Update { connector_name: Option<String>, .. }
ConnectorUpdates == {None} \cup {Some(n) : n \in ConnectorNames}

QueryResult(res, ret) == [res |-> res, ret |-> ret]

\* the last query: the function, whether its changeset was empty, the
\* caller and the result
NoQuery == [op |-> "none", no_fields |-> FALSE, caller |-> 0, res |-> "none", ret |-> None]

QueryReturns(op, no_fields, caller, result) ==
    [op |-> op, no_fields |-> no_fields, caller |-> caller, res |-> result.res,
     ret |-> result.ret]

\* generics::generic_insert
generic_insert(stored, row, reply) ==
    IF reply # "ok" THEN QueryResult("DatabaseError", None)
    ELSE IF stored # None THEN QueryResult("UniqueViolation", None)
    ELSE QueryResult("Ok", Some(row))

\* generics::generic_find_by_id / generic_find_one
generic_find_by_id(stored, reply) ==
    IF reply # "ok" THEN QueryResult("DatabaseError", None)
    ELSE IF stored = None THEN QueryResult("NotFound", None)
    ELSE QueryResult("Ok", stored)

\* generics::generic_update_by_id: a changeset without a field is refused
\* when the statement is built; updated is the row with the changeset applied
generic_update_by_id(stored, updated, no_fields, reply) ==
    IF no_fields THEN QueryResult("NoFieldsToUpdate", None)
    ELSE IF reply # "ok" THEN QueryResult("DatabaseError", None)
    ELSE IF stored = None THEN QueryResult("NotFound", None)
    ELSE QueryResult("Ok", Some(updated))

otherThanTables == <<otherThanAdmin, tenancy>>

\* ConfigNew::insert
ConfigNew_insert(config, reply) ==
    /\ LET result == generic_insert(tables.configs, [key |-> "K", config |-> config], reply)
       IN  tables' = [tables EXCEPT
               !.configs = IF result.res = "Ok" THEN result.ret ELSE @,
               !.call = QueryReturns("ConfigNew::insert", FALSE, 0, result)]
    /\ UNCHANGED otherThanTables

\* Config::update_by_key
Config_update_by_key(config_update, update_reply, find_reply) ==
    /\ LET updated == [key |-> "K", config |-> unwrap_or(config_update, "")]
           update == generic_update_by_id(tables.configs, updated, config_update = None,
                                          update_reply)
           result == IF update.res = "NoFieldsToUpdate"
                     THEN generic_find_by_id(tables.configs, find_reply)
                     ELSE update
       IN  tables' = [tables EXCEPT
               !.configs = IF update.res = "Ok" THEN update.ret ELSE @,
               !.call = QueryReturns("Config::update_by_key", config_update = None, 0, result)]
    /\ UNCHANGED otherThanTables

\* MerchantConnectorAccountNew::insert_diesel; the caller keeps the row
insert_diesel(c, connector_name, reply) ==
    /\ LET result == generic_insert(tables.merchant_connector_account,
                                    [id |-> 1, connector_name |-> connector_name], reply)
       IN  tables' = [tables EXCEPT
               !.merchant_connector_account = IF result.res = "Ok" THEN result.ret ELSE @,
               !.held[c] = IF result.res = "Ok" THEN result.ret ELSE @,
               !.call = QueryReturns("MerchantConnectorAccountNew::insert_diesel", FALSE, c,
                                     result)]
    /\ UNCHANGED otherThanTables

\* MerchantConnectorAccount::find_by_merchant_id_merchant_connector_id; the
\* caller keeps the row
find_by_merchant_id_merchant_connector_id(c, reply) ==
    /\ LET result == generic_find_by_id(tables.merchant_connector_account, reply)
       IN  tables' = [tables EXCEPT
               !.held[c] = IF result.res = "Ok" THEN result.ret ELSE @,
               !.call = QueryReturns("MerchantConnectorAccount::find_by_merchant_id_merchant_connector_id",
                                     FALSE, c, result)]
    /\ UNCHANGED otherThanTables

\* MerchantConnectorAccount::update on the row the caller holds (self)
MerchantConnectorAccount_update(c, merchant_connector_account, reply) ==
    /\ tables.held[c] # None
    /\ LET self == tables.held[c][1]
           no_fields == merchant_connector_account = None
           updated == [self EXCEPT
                          !.connector_name = unwrap_or(merchant_connector_account, @)]
           update == generic_update_by_id(tables.merchant_connector_account, updated,
                                          no_fields, reply)
           result == IF update.res = "NoFieldsToUpdate" THEN QueryResult("Ok", Some(self))
                     ELSE update
       IN  tables' = [tables EXCEPT
               !.merchant_connector_account = IF update.res = "Ok" THEN update.ret ELSE @,
               !.held[c] = IF result.res = "Ok" THEN result.ret ELSE @,
               !.call = QueryReturns("MerchantConnectorAccount::update", no_fields, c, result)]
    /\ UNCHANGED otherThanTables

\* MerchantConnectorAccount::delete_by_merchant_id_merchant_connector_id
delete_by_merchant_id_merchant_connector_id(c, reply) ==
    /\ LET deleted == reply = "ok" /\ tables.merchant_connector_account # None
           result == IF reply # "ok" THEN QueryResult("DatabaseError", None)
                     ELSE IF deleted THEN QueryResult("Ok", None)
                     ELSE QueryResult("NotFound", None)
       IN  tables' = [tables EXCEPT
               !.merchant_connector_account = IF deleted THEN None ELSE @,
               !.call = QueryReturns("MerchantConnectorAccount::delete_by_merchant_id_merchant_connector_id",
                                     FALSE, c, result)]
    /\ UNCHANGED otherThanTables

(***************************************************************************)
(* invite_multiple_user and handle_invitation of core/user.rs, built       *)
(* without the email feature. Emails are numbered; a user's row and a      *)
(* user-role row are named by the user's email.                            *)
(***************************************************************************)
\* if requests.len() > 10
MaxInvitations == 10

InviterEmail == 0

\* the role ids of a request: one invitable, one not
RoleIds == {"merchant_admin", "internal_admin"}

is_invitable(role_id) == role_id = "merchant_admin"

\* n requests for the emails 1..n with an invitable role, except that the
\* request at position at (if any) is the inviter's own email ("self"), has
\* a role that is not invitable ("role"), or repeats the first request's
\* email ("repeat")
InviteRequests(n, at, kind) ==
    [i \in 1..n |->
        [email |-> IF i # at THEN i
                   ELSE IF kind = "self" THEN InviterEmail
                   ELSE IF kind = "repeat" THEN 1
                   ELSE i,
         role_id |-> IF i = at /\ kind = "role" THEN "internal_admin" ELSE "merchant_admin"]]

\* what can go wrong with one request of a call: the request itself, or the
\* store failing at find_user_by_email or at set_metadata
InviteFaults == {"self", "role", "repeat", "find_user_by_email", "set_metadata"}

\* handle_invitation's result for a request, given the rows of the store and
\* whether a store call of this request fails
handle_invitation_result(request, users, user_roles, failing_call) ==
    IF request.email = InviterEmail THEN "InvalidRoleOperationWithMessage"
    ELSE IF ~is_invitable(request.role_id) THEN "InvalidRoleId"
    ELSE IF failing_call = "find_user_by_email" THEN "InternalServerError"
    ELSE IF request.email \in users
         THEN IF request.email \in user_roles THEN "UserExists" ELSE "Ok"
    ELSE IF failing_call = "set_metadata" THEN "InternalServerError"
    ELSE "Ok"

\* whether the request gets as far as its inserts
ReachesInserts(request, failing_call) ==
    /\ request.email # InviterEmail
    /\ is_invitable(request.role_id)
    /\ failing_call # "find_user_by_email"

invitation_response_dropping_error(request, result, is_new) ==
    [email |-> request.email, is_email_sent |-> FALSE,
     password |-> IF result = "Ok" /\ is_new THEN Some("generated") ELSE None,
     error |-> None]

\* the response of one request: handle_invitation's Ok(response), or for
\* Err(error) the response that carries the error message
invitation_response(request, result, is_new) ==
    [email |-> request.email, is_email_sent |-> FALSE,
     password |-> IF result = "Ok" /\ is_new THEN Some("generated") ELSE None,
     error |-> IF result = "Ok" THEN None ELSE Some(result)]

\* the calls: 0 to MaxInvitations + 1 requests, of which none or the first,
\* the second or the last goes wrong
InviteCalls ==
    {[requests |-> InviteRequests(n, 0, "none"), failing |-> [at |-> 0, call |-> "none"]] :
        n \in 0..(MaxInvitations + 1)}
    \cup
    {[requests |-> InviteRequests(c[1], c[2], c[3]),
      failing |-> [at |-> c[2],
                   call |-> IF c[3] \in {"find_user_by_email", "set_metadata"}
                            THEN c[3] ELSE "none"]] :
        c \in {d \in (1..(MaxInvitations + 1)) \X (1..(MaxInvitations + 1)) \X InviteFaults :
                  /\ d[2] \in {1, 2, d[1]}
                  /\ d[3] = "repeat" => d[2] # 1}}

otherThanInvite == <<otherThanDashboard, user_state, sessionVars>>

\* invite_multiple_user up to join_all: the length check, then one future
\* per request
invite_multiple_user(requests, failing) ==
    /\ invite.pc = "idle"
    /\ invite' = IF Len(requests) > MaxInvitations
                 THEN [invite EXCEPT !.pc = "done", !.requests = requests,
                                     !.failing = failing, !.res = "MaxInvitationsError"]
                 ELSE [invite EXCEPT !.pc = "join_all", !.requests = requests,
                                     !.failing = failing,
                                     !.pending = DOMAIN requests,
                                     !.responses = [i \in DOMAIN requests |-> None]]
    /\ UNCHANGED otherThanInvite

\* one future of join_all runs handle_invitation for its request
handle_invitation(i) ==
    /\ invite.pc = "join_all"
    /\ i \in invite.pending
    /\ LET request == invite.requests[i]
           failing_call == IF invite.failing.at = i THEN invite.failing.call ELSE "none"
           result == handle_invitation_result(request, invite.users, invite.user_roles,
                                              failing_call)
           is_new == request.email \notin invite.users
           inserts == ReachesInserts(request, failing_call)
       IN  invite' = [invite EXCEPT
               !.pending = @ \ {i},
               !.users = IF inserts THEN @ \cup {request.email} ELSE @,
               !.user_roles = IF inserts THEN @ \cup {request.email} ELSE @,
               !.responses[i] = Some(invitation_response(request, result, is_new))]
    /\ UNCHANGED otherThanInvite

\* join_all is complete: Ok(ApplicationResponse::Json(responses))
invite_multiple_user_returns ==
    /\ invite.pc = "join_all"
    /\ invite.pending = {}
    /\ invite' = [invite EXCEPT !.pc = "done", !.res = "Json"]
    /\ UNCHANGED otherThanInvite

(***************************************************************************)
(* api_models::refunds: the refund request and its refund type.            *)
(***************************************************************************)
\* enum RefundType { #[default] Scheduled, Instant }
RefundTypes == {"Scheduled", "Instant"}

RefundType_default == "Scheduled"

\* #[derive(Default)] struct RefundRequest
RefundRequest_default ==
    [payment_id |-> "", refund_id |-> None, merchant_id |-> None, amount |-> None,
     refund_type |-> None]

\* the refund requests a merchant sends
RefundRequests ==
    [payment_id : PaymentIds, refund_id : {None, Some("R1")}, merchant_id : {None, Some("M1")},
     amount : {None, Some(100), Some(6540)},
     refund_type : {None} \cup {Some(t) : t \in RefundTypes}]

\* the refund type a request is handled with: request.refund_type, or the
\* type's default when the request omits it
unwrap_or_default ==
    /\ refund.refund_type = None
    /\ refund' = [refund EXCEPT
                     !.refund_type = Some(unwrap_or(refund.request.refund_type,
                                                    RefundType_default))]
    /\ UNCHANGED <<healthVars, customers, dashboardVars, sessionVars, adminVars, storage_scheme, kvVars,
                   pg, callVars, outsideStore>>

(***************************************************************************)
(* The health of the redis connection.                                     *)
(***************************************************************************)
\* RedisConnectionPool::on_error, the task Store::new spawns: an error event
\* of the connection clears the shared flag
on_error ==
    /\ is_redis_available
    /\ is_redis_available' = FALSE
    /\ UNCHANGED <<customers, dashboardVars, refundVars, sessionVars, adminVars, storage_scheme, kvVars,
                   pg, callVars, outsideStore>>

\* Store::redis_conn(): the pool when the flag is set, else the connection
\* error. The payment-intent calls read the field Store.redis_conn instead.
redis_conn(available) == IF available THEN "Ok" ELSE "RedisConnectionError"

(***************************************************************************)
(* The drainer: applies each stream's entries in order; a delivery may be  *)
(* repeated.                                                               *)
(***************************************************************************)
Drain(name, now) ==
    /\ Drained(name) < Len(Entries(name))
    /\ pg' = ApplyEntry(pg, Entries(name)[Drained(name) + 1], now)
    /\ drained' = IF name \in DOMAIN drained
                  THEN [drained EXCEPT ![name] = @ + 1]
                  ELSE drained @@ (name :> 1)
    /\ UNCHANGED <<auxVars, storage_scheme, cache, stream, callVars, outsideStore>>

DrainReplay(name, now) ==
    /\ Drained(name) > 0
    /\ pg' = ApplyEntry(pg, Entries(name)[Drained(name)], now)
    /\ UNCHANGED <<auxVars, storage_scheme, kvVars, callVars, outsideStore>>

\* the storage_scheme argument of the calls: resolved from the merchant
\* account before every call, so that it can differ from one call to the next
SwitchScheme(merchant_id, scheme) ==
    /\ storage_scheme[merchant_id] # scheme
    /\ storage_scheme' = [storage_scheme EXCEPT ![merchant_id] = scheme]
    /\ UNCHANGED <<auxVars, kvVars, pg, callVars, outsideStore>>

Replies == {"ok", "err"}
AppendReplies == {"ok", "query_err", "append_err"}


(***************************************************************************)
(* MockDb: PaymentIntentInterface on a Vec behind a mutex, so that each    *)
(* operation is one step.                                                  *)
(***************************************************************************)
\* every PaymentIntentNew: each timestamp absent or given
PaymentIntentNews ==
    {[payment_id |-> p, merchant_id |-> m, status |-> st, amount |-> 0,
      customer_id |-> None, return_url |-> None, created_at |-> c, modified_at |-> mo] :
        p \in PaymentIds, m \in Merchants,
        st \in {"RequiresPaymentMethod", "RequiresConfirmation"},
        c \in {None} \cup {Some(t) : t \in Times},
        mo \in {None} \cup {Some(t) : t \in Times}}

\* the row MockDb::insert_payment_intent pushes; time is its date_time::now()
MockRow(rows, new, time) ==
    [id |-> Len(rows),
     payment_id |-> new.payment_id,
     merchant_id |-> new.merchant_id,
     status |-> new.status,
     amount |-> new.amount,
     customer_id |-> new.customer_id,
     return_url |-> new.return_url,
     created_at |-> unwrap_or(new.created_at, time),
     modified_at |-> unwrap_or(new.modified_at, time)]

\* MockDb::insert_payment_intent
MockInsert(new, time) ==
    /\ Len(payment_intents) < MaxMockRows
    /\ payment_intents' = Append(payment_intents, MockRow(payment_intents, new, time))
    /\ mock_held' = [held |-> Some(MockRow(payment_intents, new, time)), res |-> "Ok",
                     op |-> "insert"]
    /\ UNCHANGED <<auxVars, storage_scheme, kvVars, pg, callVars, rowVars, verifyVars>>

\* the first item the iterator's find accepts, 0 if none
FirstIndex(rows, Accepts(_)) ==
    IF \E i \in DOMAIN rows : Accepts(rows[i])
    THEN CHOOSE i \in DOMAIN rows :
             Accepts(rows[i]) /\ \A j \in 1..(i - 1) : ~Accepts(rows[j])
    ELSE 0

\* MockDb::update_payment_intent: find by this.id, unwrap, overwrite
MockUpdate(upd) ==
    /\ mock_held.held # None
    /\ LET this == mock_held.held[1]
           HasId(item) == item.id = this.id
           i == FirstIndex(payment_intents, HasId)
       IN  IF i = 0
           THEN /\ mock_held' = [mock_held EXCEPT !.res = "panic", !.op = "update"]
                /\ UNCHANGED payment_intents
           ELSE /\ payment_intents' =
                       [payment_intents EXCEPT ![i] = apply_changeset(upd, this)]
                /\ mock_held' = [held |-> Some(apply_changeset(upd, this)), res |-> "Ok",
                                 op |-> "update"]
    /\ UNCHANGED <<auxVars, storage_scheme, kvVars, pg, callVars, rowVars, verifyVars>>

\* MockDb::find_payment_intent_by_payment_id_merchant_id: find, cloned, unwrap
MockFind(payment_id, merchant_id) ==
    /\ LET Matches(item) == item.payment_id = payment_id /\ item.merchant_id = merchant_id
           i == FirstIndex(payment_intents, Matches)
       IN  mock_held' = IF i = 0
                        THEN [mock_held EXCEPT !.res = "panic", !.op = "find"]
                        ELSE [held |-> Some(payment_intents[i]), res |-> "Ok", op |-> "find"]
    /\ UNCHANGED <<auxVars, storage_scheme, kvVars, pg, callVars, payment_intents, rowVars, verifyVars>>

(***************************************************************************)
(* The row each insert path builds from one PaymentIntentNew, every        *)
(* date_time::now() of the paths reading the same clock value.             *)
(***************************************************************************)
RowInputs == {[new |-> new, now |-> now] : new \in PaymentIntentNews, now \in Times}

NoRows == [kv |-> None, pg |-> None, mock |-> None]

\* Store::insert_payment_intent, RedisKv: created_intent
BuildKvRow ==
    /\ row_out.kv = None
    /\ row_out' = [row_out EXCEPT
                      !.kv = Some(created_intent(row_in.new, row_in.now, row_in.now))]
    /\ UNCHANGED <<auxVars, storage_scheme, kvVars, pg, callVars, mockVars, row_in, verifyVars>>

\* Store::insert_payment_intent, PostgresOnly: the row insert_diesel returns
BuildPgRow ==
    /\ row_out.pg = None
    /\ row_out' = [row_out EXCEPT !.pg = Some(PgInsertedRow({}, row_in.new, row_in.now))]
    /\ UNCHANGED <<auxVars, storage_scheme, kvVars, pg, callVars, mockVars, row_in, verifyVars>>

\* MockDb::insert_payment_intent: payment_intent
BuildMockRow ==
    /\ row_out.mock = None
    /\ row_out' = [row_out EXCEPT !.mock = Some(MockRow(<<>>, row_in.new, row_in.now))]
    /\ UNCHANGED <<auxVars, storage_scheme, kvVars, pg, callVars, mockVars, row_in, verifyVars>>

(***************************************************************************)
(* PaymentMethodValidate::get_trackers: three inserts, each followed by ?  *)
(* with the error changed to VerificationFailed.                           *)
(***************************************************************************)
\* PaymentAttemptNew of make_payment_attempt; txn_id is a fresh uuid
make_payment_attempt(payment_id, merchant_id, txn_id) ==
    [payment_id |-> payment_id, merchant_id |-> merchant_id, txn_id |-> txn_id,
     status |-> "Pending", amount |-> 0, confirm |-> TRUE]

\* PaymentCreate::make_connector_response(&payment_attempt)
make_connector_response(payment_attempt) ==
    [payment_id |-> payment_attempt.payment_id, merchant_id |-> payment_attempt.merchant_id,
     txn_id |-> payment_attempt.txn_id]

\* the statuses helpers::payment_intent_status_fsm(&payment_method_data,
\* Some(true)) can give a new Intent
FsmStatuses == {"RequiresPaymentMethod", "RequiresConfirmation", "RequiresCapture", "Processing"}

\* request.merchant_id of a VerifyRequest
RequestMerchantIds == {None, Some("M1"), Some("M2")}

\* helpers::validate_merchant_id: the request's merchant id, when given, is
\* the merchant account's
validate_merchant_id(merchant_id, request_merchant_id) ==
    unwrap_or(request_merchant_id, merchant_id) = merchant_id

NextStage_ignoring_failure(stage, ok) ==
    CASE stage = "ValidateRequest" -> "insert_payment_attempt"
      [] stage = "GetTracker" -> "domain_enrichment"
      [] stage = "Domain" -> "update_trackers"
      [] stage = "UpdateTracker" -> "done"

\* the driver: where a run goes after a stage returned Ok (ok) or Err
NextStage(stage, ok) ==
    IF ~ok THEN "failed"
    ELSE CASE stage = "ValidateRequest" -> "insert_payment_attempt"
           [] stage = "GetTracker" -> "domain_enrichment"
           [] stage = "Domain" -> "update_trackers"
           [] stage = "UpdateTracker" -> "done"

StartRun ==
    [pc |-> "start", payment_id |-> "", merchant_id |-> "", issued |-> <<>>, res |-> "none",
     stages |-> <<>>, errors |-> <<>>, updates |-> <<>>, payment_intent |-> None,
     created_status |-> "none", customer_id |-> None, customer |-> None]

\* the run with the stage entered and, when it returned Err, the error noted
Staged(run, stage, entered, ok) ==
    [run EXCEPT !.stages = IF entered THEN Append(@, stage) ELSE @,
                !.errors = IF ok THEN @ ELSE Append(@, stage)]

\* the customer_id of a request: absent, or the one repeat customer
CustomerIds == {None, Some("C1")}

validate_request_touching_storage(r, payment_id, merchant_id, request_merchant_id, mandate_ok) ==
    /\ runs[r].pc = "start"
    /\ LET ok == validate_merchant_id(merchant_id, request_merchant_id) /\ mandate_ok
       IN  runs' = [runs EXCEPT ![r] =
               [Staged(@, "ValidateRequest", TRUE, ok) EXCEPT
                   !.pc = NextStage("ValidateRequest", ok),
                   !.payment_id = payment_id,
                   !.merchant_id = merchant_id,
                   !.res = IF ok THEN "none"
                           ELSE IF mandate_ok THEN "MerchantAccountNotFound"
                           ELSE "MandateError"]]
    /\ payment_attempts' = payment_attempts \cup {make_payment_attempt(payment_id, merchant_id, r)}
    /\ UNCHANGED <<auxVars, storage_scheme, kvVars, pg, callVars, mockVars, rowVars,
                   connector_responses>>

\* validate_request: validate_merchant_id, then validate_mandate (mandate_ok
\* is its verdict), then the validation id it generates as the payment id
validate_request(r, payment_id, merchant_id, request_merchant_id, mandate_ok) ==
    /\ runs[r].pc = "start"
    /\ LET merchant_ok == validate_merchant_id(merchant_id, request_merchant_id)
           ok == merchant_ok /\ mandate_ok
       IN  runs' = [runs EXCEPT ![r] =
               [Staged(@, "ValidateRequest", TRUE, ok) EXCEPT
                   !.pc = NextStage("ValidateRequest", ok),
                   !.payment_id = IF ok THEN payment_id ELSE "",
                   !.merchant_id = merchant_id,
                   !.res = IF ok THEN "none"
                           ELSE IF ~merchant_ok THEN "MerchantAccountNotFound"
                           ELSE "MandateError"]]
    /\ UNCHANGED <<auxVars, storage_scheme, kvVars, pg, callVars, mockVars, rowVars,
                   payment_attempts, connector_responses>>

AfterInsert_swallowing_error(run, what, ok, next) ==
    [run EXCEPT !.issued = Append(@, what),
                !.pc = next,
                !.res = IF next = "done" THEN "Ok" ELSE @]

\* the run after an insert named what answered ok or not
AfterInsert(run, what, ok, next) ==
    [run EXCEPT !.issued = Append(@, what),
                !.pc = IF ok THEN next ELSE "failed",
                !.res = IF ok THEN (IF next = "done" THEN "Ok" ELSE @)
                        ELSE "VerificationFailed"]

\* db.insert_payment_attempt(Self::make_payment_attempt(..))
insert_payment_attempt(r, reply) ==
    /\ runs[r].pc = "insert_payment_attempt"
    /\ payment_attempts' =
           IF reply = "ok"
           THEN payment_attempts
                    \cup {make_payment_attempt(runs[r].payment_id, runs[r].merchant_id, r)}
           ELSE payment_attempts
    /\ runs' = [runs EXCEPT ![r] =
                   AfterInsert(Staged(@, "GetTracker", TRUE, reply = "ok"),
                               "payment_attempt", reply = "ok", "insert_payment_intent")]
    /\ UNCHANGED <<auxVars, storage_scheme, kvVars, pg, callVars, mockVars, rowVars,
                   connector_responses>>

\* db.insert_payment_intent(Self::make_payment_intent(..)); status is what
\* payment_intent_status_fsm gave
insert_payment_intent(r, now, status, reply) ==
    /\ runs[r].pc = "insert_payment_intent"
    /\ LET new == [make_payment_intent(runs[r].payment_id, runs[r].merchant_id, now)
                      EXCEPT !.status = status]
           ok == reply = "ok" /\ PgRows(pg, new.merchant_id, new.payment_id) = {}
           after == AfterInsert(Staged(runs[r], "GetTracker", FALSE, ok),
                                "payment_intent", ok, "insert_connector_response")
       IN  /\ pg' = IF reply = "ok" THEN PgInsert(pg, new, now) ELSE pg
           /\ runs' = [runs EXCEPT ![r] =
                          IF ok
                          THEN [after EXCEPT !.payment_intent = Some(PgInsertedRow(pg, new, now)),
                                             !.created_status = status]
                          ELSE after]
    /\ UNCHANGED <<auxVars, storage_scheme, kvVars, callVars, mockVars, rowVars,
                   payment_attempts, connector_responses>>

\* db.insert_connector_response(PaymentCreate::make_connector_response(..))
insert_connector_response(r, reply) ==
    /\ runs[r].pc = "insert_connector_response"
    /\ connector_responses' =
           IF reply = "ok"
           THEN connector_responses \cup
                    {make_connector_response(
                         make_payment_attempt(runs[r].payment_id, runs[r].merchant_id, r))}
           ELSE connector_responses
    /\ runs' = [runs EXCEPT ![r] =
                   AfterInsert(Staged(@, "GetTracker", FALSE, reply = "ok"),
                               "connector_response", reply = "ok",
                               NextStage("GetTracker", TRUE))]
    /\ UNCHANGED <<auxVars, storage_scheme, kvVars, pg, callVars, mockVars, rowVars,
                   payment_attempts>>

(***************************************************************************)
(* The stages after get_trackers: domain enrichment                        *)
(* (get_or_create_customer_details, make_pm_data) and update_trackers.     *)
(***************************************************************************)
\* the customers' rows of one (customer_id, merchant_id)
CustomerRows(table, customer_id, merchant_id) ==
    {row \in table : row.customer_id = customer_id /\ row.merchant_id = merchant_id}

CustomerInsert_without_unique_index(table, row) == table \cup {row}

\* the insert statement of a customer: refused when the store holds a row of
\* the same (customer_id, merchant_id)
CustomerInsert(table, row) ==
    IF CustomerRows(table, row.customer_id, row.merchant_id) # {}
    THEN table
    ELSE table \cup {row}

\* get_or_create_customer_details, first half: the request's customer_id is
\* looked up; a run without customer_id, or whose customer exists, goes on
\* to make_pm_data, the others to the insert
find_customer(r, customer_id, reply) ==
    /\ runs[r].pc = "domain_enrichment"
    /\ LET hit == IF customer_id = None THEN {}
                  ELSE CustomerRows(customers, customer_id[1], runs[r].merchant_id)
       IN  runs' = [runs EXCEPT ![r] =
               [Staged(@, "Domain", TRUE, reply = "ok") EXCEPT
                   !.pc = IF reply # "ok" THEN NextStage("Domain", FALSE)
                          ELSE IF customer_id = None \/ hit # {} THEN "make_pm_data"
                          ELSE "insert_customer",
                   !.customer_id = customer_id,
                   !.customer = IF reply = "ok" /\ hit # {}
                                THEN Some(CHOOSE row \in hit : TRUE) ELSE None,
                   !.res = IF reply = "ok" THEN @ ELSE "StorageError"]]
    /\ UNCHANGED <<auxVars, storage_scheme, kvVars, pg, callVars, mockVars, rowVars,
                   payment_attempts, connector_responses>>

\* get_or_create_customer_details, second half: the customer the lookup
\* did not find is inserted; the store's refusal fails the run
insert_customer(r, reply) ==
    /\ runs[r].pc = "insert_customer"
    /\ LET row == [customer_id |-> runs[r].customer_id[1],
                   merchant_id |-> runs[r].merchant_id, by |-> r]
           after == IF reply = "ok" THEN CustomerInsert(customers, row) ELSE customers
           ok == row \in after /\ row \notin customers
       IN  /\ customers' = after
           /\ runs' = [runs EXCEPT ![r] =
                  [Staged(@, "Domain", FALSE, ok) EXCEPT
                      !.pc = IF ok THEN "make_pm_data" ELSE NextStage("Domain", FALSE),
                      !.customer = IF ok THEN Some(row) ELSE None,
                      !.res = IF ok THEN @
                              ELSE IF reply = "ok" THEN "DuplicateValue" ELSE "StorageError"]]
    /\ UNCHANGED <<healthVars, dashboardVars, refundVars, sessionVars, adminVars, storage_scheme, kvVars,
                   pg, callVars, mockVars, rowVars, payment_attempts, connector_responses>>

\* the rest of the stage: make_pm_data
domain_enrichment(r, reply) ==
    /\ runs[r].pc = "make_pm_data"
    /\ runs' = [runs EXCEPT ![r] =
                   [Staged(@, "Domain", FALSE, reply = "ok") EXCEPT
                       !.pc = NextStage("Domain", reply = "ok"),
                       !.res = IF reply = "ok" THEN @ ELSE "StorageError"]]
    /\ UNCHANGED <<auxVars, storage_scheme, kvVars, pg, callVars, mockVars, rowVars,
                   payment_attempts, connector_responses>>

update_trackers_status_requires_payment_method == Some("RequiresPaymentMethod")

\* let status = Some(enums::IntentStatus::Processing)
update_trackers_status == Some("Processing")

tracker_updates_touching_attempt(payment_intent) ==
    <<[entity |-> "payment_intent", variant |-> "ReturnUrlUpdate",
       changeset |-> ReturnUrlUpdate(None, update_trackers_status, payment_intent.customer_id)],
      [entity |-> "payment_attempt", variant |-> "StatusUpdate",
       changeset |-> ReturnUrlUpdate(None, update_trackers_status, None)]>>

\* the storage update calls update_trackers issues, in order
tracker_updates(payment_intent) ==
    <<[entity |-> "payment_intent", variant |-> "ReturnUrlUpdate",
       changeset |-> ReturnUrlUpdate(None, update_trackers_status, payment_intent.customer_id)]>>

\* update_trackers: db.update_payment_intent(payment_data.payment_intent, ..)
\* with the error changed to VerificationFailed
update_trackers(r, reply) ==
    /\ runs[r].pc = "update_trackers"
    /\ LET this == runs[r].payment_intent[1]
           issues == tracker_updates(this)
           upd == issues[1].changeset
           ok == reply = "ok" /\ PgRows(pg, this.merchant_id, this.payment_id) # {}
       IN  /\ pg' = IF reply = "ok"
                    THEN PgUpdate(pg, this.merchant_id, this.payment_id, upd)
                    ELSE pg
           /\ runs' = [runs EXCEPT ![r] =
                          [Staged(@, "UpdateTracker", TRUE, ok) EXCEPT
                              !.pc = NextStage("UpdateTracker", ok),
                              !.updates = @ \o issues,
                              !.payment_intent = IF ok THEN Some(apply_changeset(upd, this)) ELSE @,
                              !.res = IF ok THEN "Ok" ELSE "VerificationFailed"]]
    /\ UNCHANGED <<auxVars, storage_scheme, kvVars, callVars, mockVars, rowVars,
                   payment_attempts, connector_responses>>

InitStore ==
    /\ storage_scheme \in [Merchants -> Schemes]
    /\ cache = <<>>
    /\ stream = <<>>
    /\ drained = <<>>
    /\ pg = {}
    /\ callers = [c \in Callers |-> IdleCaller]
    /\ calls = 0
    /\ log = <<>>

InitMock ==
    /\ payment_intents = <<>>
    /\ mock_held = [held |-> None, res |-> "none", op |-> "none"]

InitRow ==
    /\ row_in = None
    /\ row_out = NoRows

InitVerify ==
    /\ runs = [r \in Runs |-> StartRun]
    /\ payment_attempts = {}
    /\ connector_responses = {}

NoCall == [op |-> "none", res |-> "none", updated |-> FALSE, failed |-> {}]

InitHealth == is_redis_available = TRUE

InitCustomers == customers = {}

InitDashboard ==
    /\ user_state = [password |-> generate_password_hash("pw1"), totp_status |-> "NotSet",
                     totp_secret |-> None, role_status |-> "InvitationSent",
                     change_password_required |-> TRUE, blacklist |-> {},
                     redis_totp_secret |-> None, redis_totp |-> FALSE,
                     recovery_codes |-> None, redis_recovery_code |-> FALSE,
                     generations |-> 0, call |-> NoCall]
    /\ invite = [pc |-> "idle", requests |-> <<>>, failing |-> [at |-> 0, call |-> "none"],
                 pending |-> {}, responses |-> <<>>, res |-> "none",
                 users |-> {InviterEmail}, user_roles |-> {}]

InitRefund == refund = [request |-> RefundRequest_default, refund_type |-> None]

InitSessions ==
    /\ verify_calls = [sessions |-> [c \in Callers |-> IdleSession], started |-> 0,
                       succeeded |-> [code \in RequestCodes |-> 0]]
    /\ signout_call = [pc |-> "idle", done |-> <<>>, res |-> "none"]

\* the user has signed up with merchant M1; M3 is another user's merchant
InitTenancy ==
    tenancy = [merchant_accounts |-> {"M1", "M3"},
               user_roles |-> [m \in TenancyMerchants |-> IF m = "M1" THEN "Active" ELSE "none"],
               tokens |-> {"M1"}, permission_cache |-> {}, call |-> NoTenancyCall]

\* both tables empty, no row read yet
InitTables ==
    tables = [configs |-> None, merchant_connector_account |-> None,
              held |-> [c \in Callers |-> None], call |-> NoQuery]

InitAdmin == InitTenancy /\ InitTables

InitAux ==
    InitHealth /\ InitCustomers /\ InitDashboard /\ InitRefund /\ InitSessions /\ InitAdmin

Init == InitStore /\ InitMock /\ InitRow /\ InitVerify /\ InitAux

\* a PaymentIntentNew and a clock value for the insert paths
RowInit ==
    /\ InitStore /\ InitMock /\ InitVerify /\ InitAux
    /\ row_in \in RowInputs
    /\ row_out = NoRows

\* the storage interface called by the callers cs for the payments ps, and
\* the drainer
StoreNext(cs, ps) ==
    \/ \E c \in cs, p \in ps, m \in Merchants, reply \in Replies :
           InsertHsetnx(c, make_payment_intent(p, m, 1), 1, 1, reply)
    \/ \E c \in cs, reply \in AppendReplies : InsertAppend(c, reply)
    \/ \E c \in cs, upd \in Updates, reply \in Replies : UpdateHset(c, upd, reply)
    \/ \E c \in cs, reply \in AppendReplies : UpdateAppend(c, reply)
    \/ \E c \in cs, p \in ps, m \in Merchants, reply \in Replies :
           FindHget(c, p, m, reply)
    \/ \E c \in cs, p \in ps, m \in Merchants, now \in Times :
           InsertPostgres(c, make_payment_intent(p, m, 1), now)
    \/ \E c \in cs, upd \in Updates : UpdatePostgres(c, upd)
    \/ \E c \in cs, p \in ps, m \in Merchants : FindPostgres(c, p, m)
    \/ \E name \in StreamNames, now \in Times : Drain(name, now)
    \/ \E name \in StreamNames, now \in Times : DrainReplay(name, now)

\* concurrent callers working on one payment
Next == StoreNext(Callers, {"P1"})

\* one caller working on every payment
ShardNext == StoreNext({1}, PaymentIds)

Spec == Init /\ [][Next]_vars

SpecShard == Init /\ [][ShardNext]_vars

\* one caller working on one payment of a merchant whose storage scheme
\* changes between calls
SchemeNext ==
    \/ StoreNext({1}, {"P1"})
    \/ \E m \in Merchants, scheme \in Schemes : SwitchScheme(m, scheme)

SpecScheme == Init /\ [][SchemeNext]_vars

\* one caller inserting, reading and listing the payments of a merchant
\* whose storage scheme changes between calls
FilterNext ==
    \/ \E p \in PaymentIds, m \in Merchants, reply \in Replies :
           InsertHsetnx(1, make_payment_intent(p, m, 1), 1, 1, reply)
    \/ \E reply \in AppendReplies : InsertAppend(1, reply)
    \/ \E p \in PaymentIds, m \in Merchants, now \in Times :
           InsertPostgres(1, make_payment_intent(p, m, 1), now)
    \/ \E upd \in Updates : UpdatePostgres(1, upd)
    \/ \E p \in PaymentIds, m \in Merchants : FindPostgres(1, p, m)
    \/ \E m \in Merchants : FilterPostgres(1, m)
    \/ \E m \in Merchants : FilterRedisKv(1, m)
    \/ \E m \in Merchants, scheme \in Schemes : SwitchScheme(m, scheme)

SpecFilter == Init /\ [][FilterNext]_vars

\* one caller working on one payment while the connection's error task runs
HealthNext ==
    \/ StoreNext({1}, {"P1"})
    \/ on_error

SpecHealth == Init /\ [][HealthNext]_vars

\* the dashboard user's password and TOTP handlers
UserNext ==
    \/ \E old_password, new_password \in Passwords,
          find_reply, update_reply, blacklist_reply, metadata_reply \in Replies :
           change_password(old_password, new_password, find_reply, update_reply,
                           blacklist_reply, metadata_reply)
    \/ \E password \in Passwords, find_reply, update_reply, blacklist_reply \in Replies :
           rotate_password(password, find_reply, update_reply, blacklist_reply)
    \/ \E password \in Passwords, token_ok \in BOOLEAN, inviter \in {None, Some("M1")},
          check_reply, update_reply, role_reply, token_reply, blacklist_reply \in Replies :
           reset_password(password, token_ok, check_reply, inviter, update_reply, role_reply,
                          token_reply, blacklist_reply)
    \/ \E secret \in Secrets, find_reply, insert_reply \in Replies :
           begin_totp(secret, find_reply, insert_reply)
    \/ \E totp_ok \in BOOLEAN, find_reply, get_reply, key_store_reply, update_reply,
          delete_reply, insert_reply \in Replies :
           update_totp(totp_ok, find_reply, get_reply, key_store_reply, update_reply,
                       delete_reply, insert_reply)

SpecUser == Init /\ [][UserNext]_vars

\* enrolment in two-factor authentication, and the recovery codes used by
\* two concurrent requests
RecoveryNext ==
    \/ \E secret \in Secrets, find_reply, insert_reply \in Replies :
           begin_totp(secret, find_reply, insert_reply)
    \/ \E totp_ok \in BOOLEAN, find_reply, get_reply, key_store_reply, update_reply,
          delete_reply, insert_reply \in Replies :
           update_totp(totp_ok, find_reply, get_reply, key_store_reply, update_reply,
                       delete_reply, insert_reply)
    \/ \E check_reply, hash_reply, update_reply \in Replies :
           generate_recovery_codes(check_reply, hash_reply, update_reply)
    \/ \E skip_two_factor_auth \in BOOLEAN,
          find_reply, totp_reply, recovery_reply, update_reply, token_reply \in Replies :
           terminate_two_factor_auth(skip_two_factor_auth, find_reply, totp_reply,
                                     recovery_reply, update_reply, token_reply)
    \/ \E c \in Callers, recovery_code \in RequestCodes, find_reply, hash_reply \in Replies :
           VerifyRecoveryCodeFind(c, recovery_code, find_reply, hash_reply)
    \/ \E c \in Callers, reply \in Replies : VerifyRecoveryCodeInsert(c, reply)
    \/ \E c \in Callers, reply \in Replies : VerifyRecoveryCodeUpdate(c, reply)

SpecRecovery == Init /\ [][RecoveryNext]_vars

\* enrolment, the end of the two-factor flow and signout
SignoutNext ==
    \/ \E secret \in Secrets, find_reply, insert_reply \in Replies :
           begin_totp(secret, find_reply, insert_reply)
    \/ \E totp_ok \in BOOLEAN, find_reply, get_reply, key_store_reply, update_reply,
          delete_reply, insert_reply \in Replies :
           update_totp(totp_ok, find_reply, get_reply, key_store_reply, update_reply,
                       delete_reply, insert_reply)
    \/ \E check_reply, hash_reply, update_reply \in Replies :
           generate_recovery_codes(check_reply, hash_reply, update_reply)
    \/ \E skip_two_factor_auth \in BOOLEAN,
          find_reply, totp_reply, recovery_reply, update_reply, token_reply \in Replies :
           terminate_two_factor_auth(skip_two_factor_auth, find_reply, totp_reply,
                                     recovery_reply, update_reply, token_reply)
    \/ \E reply \in Replies : SignoutDeleteTotp(reply)
    \/ \E reply \in Replies : SignoutDeleteRecoveryCode(reply)
    \/ \E reply \in Replies : SignoutDeleteTotpSecret(reply)
    \/ \E reply \in Replies : SignoutInsertBlacklist(reply)

SpecSignout == Init /\ [][SignoutNext]_vars

\* the merchant handlers
TenancyNext ==
    \/ \E merchant_id \in TenancyMerchants,
          find_reply, insert_reply, role_reply, delete_reply \in Replies :
           create_merchant_account(merchant_id, find_reply, insert_reply, role_reply,
                                   delete_reply)
    \/ \E merchant_id \in TenancyMerchants, reply \in Replies :
           handle_existing_user_invitation(merchant_id, reply)
    \/ \E from_merchant_id, merchant_id \in TenancyMerchants, is_internal \in BOOLEAN,
          find_reply, role_info_reply, store_reply, token_reply, cookie_reply \in Replies :
           switch_merchant_id(from_merchant_id, merchant_id, is_internal, find_reply,
                              role_info_reply, store_reply, token_reply, cookie_reply)

SpecTenancy == Init /\ [][TenancyNext]_vars

\* the queries on configs and merchant_connector_account, by two callers
TablesNext ==
    \/ \E config \in ConfigValues, reply \in Replies : ConfigNew_insert(config, reply)
    \/ \E config_update \in ConfigUpdates, update_reply, find_reply \in Replies :
           Config_update_by_key(config_update, update_reply, find_reply)
    \/ \E c \in Callers, connector_name \in ConnectorNames, reply \in Replies :
           insert_diesel(c, connector_name, reply)
    \/ \E c \in Callers, reply \in Replies : find_by_merchant_id_merchant_connector_id(c, reply)
    \/ \E c \in Callers, merchant_connector_account \in ConnectorUpdates, reply \in Replies :
           MerchantConnectorAccount_update(c, merchant_connector_account, reply)
    \/ \E c \in Callers, reply \in Replies :
           delete_by_merchant_id_merchant_connector_id(c, reply)

SpecTables == Init /\ [][TablesNext]_vars

\* ids that contain the separator of the cache key
KeyMerchants == {"M", "X_M"}

KeyPaymentIds == {"P", "P_X"}

KeysInit ==
    /\ storage_scheme = [m \in KeyMerchants |-> "RedisKv"]
    /\ cache = <<>>
    /\ stream = <<>>
    /\ drained = <<>>
    /\ pg = {}
    /\ callers = [c \in Callers |-> IdleCaller]
    /\ calls = 0
    /\ log = <<>>
    /\ InitMock /\ InitRow /\ InitVerify /\ InitAux

\* one caller's RedisKv calls for the payments of these merchants
KeysNext ==
    \/ \E p \in KeyPaymentIds, m \in KeyMerchants, reply \in Replies :
           InsertHsetnx(1, make_payment_intent(p, m, 1), 1, 1, reply)
    \/ \E reply \in AppendReplies : InsertAppend(1, reply)
    \/ \E upd \in Updates, reply \in Replies : UpdateHset(1, upd, reply)
    \/ \E reply \in AppendReplies : UpdateAppend(1, reply)
    \/ \E p \in KeyPaymentIds, m \in KeyMerchants, reply \in Replies :
           FindHget(1, p, m, reply)

SpecKeys == KeysInit /\ [][KeysNext]_vars

\* one call of invite_multiple_user with 0 to MaxInvitations + 1 requests
\* of which at most one goes wrong
InviteNext ==
    \/ \E call \in InviteCalls : invite_multiple_user(call.requests, call.failing)
    \/ \E i \in 1..MaxInvitations : handle_invitation(i)
    \/ invite_multiple_user_returns

SpecInvite == Init /\ [][InviteNext]_vars

\* a refund request and the refund type it is handled with
RefundInit ==
    /\ InitStore /\ InitMock /\ InitRow /\ InitVerify
    /\ InitHealth /\ InitCustomers /\ InitDashboard /\ InitSessions /\ InitAdmin
    /\ refund \in {[request |-> request, refund_type |-> None] : request \in RefundRequests}

RefundNext == unwrap_or_default

SpecRefund == RefundInit /\ [][RefundNext]_vars

MockNext ==
    \/ \E p \in PaymentIds, m \in Merchants, time \in Times :
           MockInsert(make_payment_intent(p, m, time), time)
    \/ \E upd \in Updates : MockUpdate(upd)
    \/ \E p \in PaymentIds, m \in Merchants : MockFind(p, m)

SpecMock == Init /\ [][MockNext]_vars

RowNext == BuildKvRow \/ BuildPgRow \/ BuildMockRow

SpecRow == RowInit /\ [][RowNext]_vars

VerifyNext ==
    \/ \E r \in Runs, p \in PaymentIds, m \in Merchants,
          rm \in RequestMerchantIds, mandate_ok \in BOOLEAN :
           validate_request(r, p, m, rm, mandate_ok)
    \/ \E r \in Runs, reply \in Replies : insert_payment_attempt(r, reply)
    \/ \E r \in Runs, status \in FsmStatuses, reply \in Replies :
           insert_payment_intent(r, 1, status, reply)
    \/ \E r \in Runs, reply \in Replies : insert_connector_response(r, reply)
    \/ \E r \in Runs, customer_id \in CustomerIds, reply \in Replies :
           find_customer(r, customer_id, reply)
    \/ \E r \in Runs, reply \in Replies : insert_customer(r, reply)
    \/ \E r \in Runs, reply \in Replies : domain_enrichment(r, reply)
    \/ \E r \in Runs, reply \in Replies : update_trackers(r, reply)

SpecVerify == Init /\ [][VerifyNext]_vars
(***************************************************************************)
(* Properties of the storage layer.                                        *)
(***************************************************************************)
Identities == {<<m, p>> : m \in Merchants, p \in PaymentIds}

\* the returned RedisKv calls of operation op on an identity, as log indices
Returned(op, id) ==
    {i \in DOMAIN log : /\ log[i].op = op
                        /\ log[i].scheme = "RedisKv"
                        /\ log[i].merchant_id = id[1]
                        /\ log[i].payment_id = id[2]}

ReturnedWith(op, id, res) == {i \in Returned(op, id) : log[i].res = res}

\* the RedisKv calls of operation op on an identity that have not returned
InFlight(op, id) ==
    {c \in Callers : /\ callers[c].pc # "idle"
                     /\ callers[c].op = op
                     /\ callers[c].merchant_id = id[1]
                     /\ callers[c].payment_id = id[2]}

\* the places <<stream name, position>> of the entries of an identity
EntryPlaces(id) ==
    {pl \in UNION {{<<name, i>> : i \in 1..Len(stream[name])} : name \in DOMAIN stream} :
        /\ stream[pl[1]][pl[2]].merchant_id = id[1]
        /\ stream[pl[1]][pl[2]].payment_id = id[2]}

EntryAt(pl) == stream[pl[1]][pl[2]]

InsertEntries(id) == {pl \in EntryPlaces(id) : EntryAt(pl).kind = "insert"}

\* C3, as claimed: of two RedisKv insert_payment_intent calls for one
\* (merchant_id, payment_id), once both have returned and the cache holds
\* the key, exactly one has returned the created row, the other a
\* duplicate-record error, and exactly one insert entry of the payment is in
\* the change stream.
C3_ExactlyOneInsertWins ==
    \A id \in Identities :
        ( /\ Cardinality(Returned("insert", id)) = 2
          /\ InFlight("insert", id) = {}
          /\ CacheKey(id[2], id[1]) \in DOMAIN cache )
        => /\ Cardinality(ReturnedWith("insert", id, "Ok")) = 1
           /\ Cardinality(ReturnedWith("insert", id, "DuplicateValue")) = 1
           /\ Cardinality(InsertEntries(id)) = 1

\* C3, amended: of the RedisKv insert_payment_intent calls for one
\* (merchant_id, payment_id), at most one returns the created row, and the
\* stream holds one insert entry of the payment exactly when one did; when
\* no call failed with KVError (no redis command, query or stream append
\* failed), exactly one returned the row and every other one a
\* duplicate-record error.
C3_AtMostOneInsertWins ==
    \A id \in Identities :
        /\ Cardinality(ReturnedWith("insert", id, "Ok")) <= 1
        /\ Cardinality(InsertEntries(id)) = Cardinality(ReturnedWith("insert", id, "Ok"))
        /\ ( /\ Returned("insert", id) # {}
             /\ InFlight("insert", id) = {}
             /\ ReturnedWith("insert", id, "KVError") = {} )
           => /\ Cardinality(ReturnedWith("insert", id, "Ok")) = 1
              /\ ReturnedWith("insert", id, "DuplicateValue")
                     = Returned("insert", id) \ ReturnedWith("insert", id, "Ok")

\* two inserts of one payment that overlapped in time (the one that returned
\* second had started before the first returned), one returning the row and
\* the other the duplicate-record error
C3_Witness ==
    \E id \in Identities : \E i, j \in Returned("insert", id) :
        /\ i < j
        /\ log[j].began < i
        /\ {log[i].res, log[j].res} = {"Ok", "DuplicateValue"}
        /\ Cardinality(InsertEntries(id)) = 1

\* C5: a RedisKv insert or update that has returned Ok made exactly one
\* stream append and it succeeded; one that wrote the cache and whose append
\* did not succeed has returned KVError; no call appends more than once.
C5_OkOnlyAfterAppend ==
    \A c \in Callers :
        LET cr == callers[c] IN
        (cr.scheme = "RedisKv" /\ cr.op \in {"insert", "update"})
        => /\ cr.appends <= 1
           /\ (cr.pc = "idle" /\ cr.res = "Ok") => (cr.append_ok /\ cr.appends = 1)
           /\ (cr.pc = "idle" /\ cr.cache_written /\ ~cr.append_ok) => cr.res = "KVError"

\* an insert and an update that each wrote the cache, failed at the stream
\* append and returned KVError
C5_Witness ==
    /\ \E c \in Callers :
          /\ callers[c].pc = "idle" /\ callers[c].op = "update"
          /\ callers[c].cache_written /\ callers[c].appends = 1
          /\ ~callers[c].append_ok /\ callers[c].res = "KVError"
    /\ \E c \in Callers :
          /\ callers[c].pc = "idle" /\ callers[c].op = "insert"
          /\ callers[c].cache_written /\ callers[c].appends = 1
          /\ ~callers[c].append_ok /\ callers[c].res = "KVError"

\* the fields a changeset can modify
ChangesetFields == {"status", "return_url", "customer_id"}

SameChangesetFields(a, b) == \A f \in ChangesetFields : a[f] = b[f]

\* the drainer has applied every entry of the identity's stream
CaughtUp(id) ==
    LET name == InsertStream([merchant_id |-> id[1], payment_id |-> id[2]])
    IN  Drained(name) = Len(Entries(name))

Quiet == \A c \in Callers : callers[c].pc = "idle"

\* C6: when no call is in flight, no RedisKv call on the payment has failed,
\* and the drainer has applied every entry of the payment's stream, the
\* relational row equals the cache-resident row in every field a changeset
\* can modify.
C6_CacheEqualsRelational ==
    \A id \in Identities :
        LET key == CacheKey(id[2], id[1]) IN
        ( /\ Quiet
          /\ CaughtUp(id)
          /\ key \in DOMAIN cache
          /\ \A i \in DOMAIN log :
                (log[i].merchant_id = id[1] /\ log[i].payment_id = id[2])
                => log[i].res \in {"Ok", "DuplicateValue"} )
        => \E row \in PgRows(pg, id[1], id[2]) :
               SameChangesetFields(row, from_str(cache[key]))

\* the changeset's Some fields are the row's values
Reflects(row, upd) ==
    /\ upd.status # None => row.status = upd.status[1]
    /\ upd.return_url # None => row.return_url = upd.return_url
    /\ upd.customer_id # None => row.customer_id = upd.customer_id

\* pairs <<i, j>> of successful RedisKv updates of an identity, the first
\* returned before the second was called
UpdateThenUpdate(id) ==
    {ij \in Returned("update", id) \X Returned("update", id) :
        /\ log[ij[1]].res = "Ok" /\ log[ij[2]].res = "Ok"
        /\ ij[1] <= log[ij[2]].began}

PlaceOfCall(id, call) == {pl \in EntryPlaces(id) : EntryAt(pl).call = call}

\* both entries are in one stream, U1's before U2's
SameStreamInOrder(id, ij) ==
    \E a \in PlaceOfCall(id, log[ij[1]].call), b \in PlaceOfCall(id, log[ij[2]].call) :
        a[1] = b[1] /\ a[2] < b[2]

\* U2's entry is the last update entry of the identity
IsLastUpdate(id, j) ==
    \E b \in PlaceOfCall(id, log[j].call) :
        \A pl \in EntryPlaces(id) :
            EntryAt(pl).kind = "update" => (pl[1] = b[1] /\ pl[2] <= b[2])

\* the identity's insert entry is in the stream before U2's entry
InsertPrecedes(id, j) ==
    \E a \in InsertEntries(id), b \in PlaceOfCall(id, log[j].call) :
        a[1] = b[1] /\ a[2] < b[2]

C9_OneShardPerPayment ==
    /\ \A id \in Identities : \A a, b \in EntryPlaces(id) : a[1] = b[1]
    /\ \A id \in Identities : \A a \in EntryPlaces(id) :
           a[1] = get_drainer_stream_name(shard_key(id[1], id[2], NumPartitions))
    /\ \A name \in DOMAIN stream : \A i, j \in 1..Len(stream[name]) :
           i < j => stream[name][i].id < stream[name][j].id

\* the insert and an update of one payment in one stream, and an entry of
\* another payment in another stream
C9_Witness ==
    \E id1, id2 \in Identities :
        /\ id1 # id2
        /\ \E a, b \in EntryPlaces(id1) :
              EntryAt(a).kind = "insert" /\ EntryAt(b).kind = "update" /\ a[2] < b[2]
        /\ \E a \in EntryPlaces(id1), b \in EntryPlaces(id2) : a[1] # b[1]

AllPlaces == UNION {EntryPlaces(id) : id \in Identities}

\* C10: applying any stream entry to the relational store twice in a row
\* gives the table that applying it once gives.
C10_ReplayIsIdempotent ==
    \A pl \in AllPlaces : \A now1, now2 \in Times :
        ApplyEntry(ApplyEntry(pg, EntryAt(pl), now1), EntryAt(pl), now2)
            = ApplyEntry(pg, EntryAt(pl), now1)

\* an insert entry and an update entry that each change the relational store
\* when applied to it
C10_Witness ==
    /\ \E pl \in AllPlaces :
          EntryAt(pl).kind = "insert" /\ ApplyEntry(pg, EntryAt(pl), 1) # pg
    /\ \E pl \in AllPlaces :
          EntryAt(pl).kind = "update" /\ ApplyEntry(pg, EntryAt(pl), 1) # pg
(***************************************************************************)
(* Properties of find and update.                                          *)
(***************************************************************************)
Terminal == {"Succeeded", "Failed", "Cancelled"}

\* C11: an Intent row whose status is terminal (Succeeded, Failed or
\* Cancelled) keeps that status in every step: no update_payment_intent
\* moves the cache-resident row or the relational row out of it.
C11_TerminalStatusIsFinal ==
    [][ /\ \A key \in DOMAIN cache :
              from_str(cache[key]).status \in Terminal
              => from_str(cache'[key]).status = from_str(cache[key]).status
        /\ \A row \in pg :
              row.status \in Terminal
              => \E after \in PgRows(pg', row.merchant_id, row.payment_id) :
                     after.status = row.status ]_vars

\* the step is caller c's RedisKv find, answered by redis
IsCachedFind(c) ==
    /\ callers'[c] # callers[c]
    /\ callers'[c].op = "find"
    /\ callers'[c].scheme = "RedisKv"
    /\ callers'[c].reply = "ok"

\* C18: a RedisKv find that redis answers returns the row deserialized from
\* the cache entry of its key, and a not-found error when the cache has no
\* entry for the key, whatever the relational store holds.
C18_CachedFindReadsCacheOnly ==
    [][ \A c \in Callers :
            IsCachedFind(c)
            => LET key == CacheKey(callers'[c].payment_id, callers'[c].merchant_id)
               IN  IF key \in DOMAIN cache
                   THEN /\ callers'[c].res = "Ok"
                        /\ callers'[c].ret = Some(from_str(cache[key]))
                   ELSE /\ callers'[c].res = "ValueNotFound"
                        /\ callers'[c].ret = None ]_vars

\* a RedisKv find returned not-found for a key absent from the cache while
\* the relational store holds the row
C18_Witness ==
    \E c \in Callers :
        /\ callers[c].pc = "idle" /\ callers[c].op = "find"
        /\ callers[c].scheme = "RedisKv" /\ callers[c].reply = "ok"
        /\ callers[c].res = "ValueNotFound"
        /\ CacheKey(callers[c].payment_id, callers[c].merchant_id) \notin DOMAIN cache
        /\ PgRows(pg, callers[c].merchant_id, callers[c].payment_id) # {}

\* C19: MockDb's find never panics: it returns a row or the not-found error.
C19_AbsentFindIsNotFound ==
    mock_held.op = "find" => mock_held.res \in {"Ok", "ValueNotFound"}

\* the stream entries appended by the call numbered call
EntriesOfCall(call) ==
    {pl \in UNION {{<<name, i>> : i \in 1..Len(stream[name])} : name \in DOMAIN stream} :
        stream[pl[1]][pl[2]].call = call}

IsCachedUpdate(cr) == cr.op = "update" /\ cr.scheme = "RedisKv"

\* C20: the HSET of a RedisKv update leaves the updated row under the key
\* whether or not the key existed and whatever it held; the call's stream
\* entry is appended only after that write, and a call whose cache write
\* failed appended nothing.
C20_UpdateWritesCacheThenAppends ==
    /\ [][ \A c \in Callers :
              (callers[c].pc = "idle" /\ callers'[c].pc = "update_append")
              => LET key == CacheKey(callers'[c].payment_id, callers'[c].merchant_id)
                 IN  /\ key \in DOMAIN cache'
                     /\ cache'[key] = to_string(callers'[c].row[1]) ]_vars
    /\ [](\A c \in Callers :
              IsCachedUpdate(callers[c])
              => /\ callers[c].pc = "update_append" => EntriesOfCall(callers[c].call) = {}
                 /\ EntriesOfCall(callers[c].call) # {} => callers[c].cache_written
                 /\ (callers[c].pc = "idle" /\ ~callers[c].cache_written)
                    => (callers[c].appends = 0 /\ callers[c].res = "KVError"))

\* a RedisKv update that wrote a key absent from the cache, appended its
\* entry and returned the row
C20_Witness ==
    \E c \in Callers :
        /\ callers[c].pc = "idle" /\ IsCachedUpdate(callers[c])
        /\ callers[c].res = "Ok" /\ ~callers[c].key_existed
        /\ EntriesOfCall(callers[c].call) # {}

\* the step in which caller c's RedisKv insert returns res
InsertReturns(c, res) ==
    /\ callers'[c] # callers[c]
    /\ callers'[c].pc = "idle"
    /\ callers'[c].op = "insert"
    /\ callers'[c].scheme = "RedisKv"
    /\ callers'[c].res = res

\* C21: a RedisKv insert that returned Ok has exactly one entry in the
\* change stream, an insert entry, and returned the row it wrote to the
\* cache in a step that left the relational store alone; one that returned
\* the duplicate-record error has no stream entry and left the cache as it
\* was.
C21_InsertAppendsOnce ==
    /\ [](\A i \in DOMAIN log :
              (log[i].op = "insert" /\ log[i].scheme = "RedisKv")
              => /\ log[i].res = "Ok"
                    => /\ Cardinality(EntriesOfCall(log[i].call)) = 1
                       /\ \A pl \in EntriesOfCall(log[i].call) : EntryAt(pl).kind = "insert"
                 /\ log[i].res = "DuplicateValue" => EntriesOfCall(log[i].call) = {})
    /\ [][ \A c \in Callers :
              /\ InsertReturns(c, "Ok")
                 => /\ pg' = pg
                    /\ callers[c].cache_written
                    /\ callers'[c].ret = callers[c].row
              /\ InsertReturns(c, "DuplicateValue") => (cache' = cache /\ pg' = pg) ]_vars

\* a RedisKv insert returned the row while the relational store has no row
\* for the payment, and another one the duplicate-record error
C21_Witness ==
    \E id \in Identities :
        /\ ReturnedWith("insert", id, "Ok") # {}
        /\ ReturnedWith("insert", id, "DuplicateValue") # {}
        /\ Cardinality(InsertEntries(id)) = 1
        /\ PgRows(pg, id[1], id[2]) = {}

\* a PostgresOnly call of caller c happens in this step
IsStrictCall(c) ==
    /\ callers'[c] # callers[c]
    /\ callers'[c].scheme = "PostgresOnly"

\* C22: under PostgresOnly, insert, update, find and filter act on the
\* relational store only and leave the cache and the streams as they were;
\* the row a successful insert or update returns is the row a find of the
\* same identity reads from the relational store, and a find or filter
\* returns what the relational store holds.
C22_StrictUsesRelationalStoreOnly ==
    [][ \A c \in Callers :
            IsStrictCall(c)
            => LET cr == callers'[c]
                   before == PgRows(pg, cr.merchant_id, cr.payment_id)
                   after == PgRows(pg', cr.merchant_id, cr.payment_id)
               IN  /\ cache' = cache /\ stream' = stream /\ drained' = drained
                   /\ cr.pc = "idle"
                   /\ (cr.op \in {"insert", "update"} /\ cr.res = "Ok")
                          => after = {cr.ret[1]}
                   /\ (cr.op \in {"insert", "update"} /\ cr.res # "Ok") => pg' = pg
                   /\ cr.op = "find"
                          => /\ pg' = pg
                             /\ IF before = {} THEN cr.res = "ValueNotFound"
                                ELSE cr.res = "Ok" /\ before = {cr.ret[1]}
                   /\ cr.op = "filter"
                          => /\ pg' = pg /\ cr.res = "Ok"
                             /\ cr.list = Some({row \in pg : row.merchant_id = cr.merchant_id}) ]_vars

\* a PostgresOnly find returned the updated row of the relational store
\* while the cache holds an older entry of the same key
C22_Witness ==
    \E c \in Callers :
        /\ callers[c].pc = "idle" /\ callers[c].op = "find"
        /\ callers[c].scheme = "PostgresOnly" /\ callers[c].res = "Ok"
        /\ callers[c].ret[1].status = "Succeeded"
        /\ callers[c].ret[1] \in pg
        /\ LET key == CacheKey(callers[c].payment_id, callers[c].merchant_id)
           IN  key \in DOMAIN cache /\ from_str(cache[key]).status # "Succeeded"
        /\ \E i \in DOMAIN log : log[i].op = "update" /\ log[i].scheme = "PostgresOnly"
                                   /\ log[i].res = "Ok"

\* C23: under RedisKv, filter returns the key-value error and never a list,
\* and changes nothing in the cache, the streams or the relational store.
C23_CachedFilterAlwaysFails ==
    [][ \A c \in Callers :
            (callers'[c] # callers[c] /\ callers'[c].op = "filter"
                /\ callers'[c].scheme = "RedisKv")
            => /\ callers'[c].pc = "idle"
               /\ callers'[c].res = "KVError"
               /\ callers'[c].list = None /\ callers'[c].ret = None
               /\ UNCHANGED <<cache, stream, drained, pg, storage_scheme, log>> ]_vars

\* a RedisKv filter returned the error while the cache and the relational
\* store both hold a row of the merchant
C23_Witness ==
    \E c \in Callers :
        /\ callers[c].pc = "idle" /\ callers[c].op = "filter"
        /\ callers[c].scheme = "RedisKv" /\ callers[c].res = "KVError"
        /\ \E row \in pg : row.merchant_id = callers[c].merchant_id
        /\ \E p \in PaymentIds : CacheKey(p, callers[c].merchant_id) \in DOMAIN cache

\* C24: a RedisKv insert, update or find that runs while the health flag is
\* cleared gets the connection error of Store::redis_conn() and sends no
\* command: the cache and the streams stay as they were.
C24_CachedCallsConsultHealthFlag ==
    [][ \A c \in Callers :
            (callers'[c] # callers[c] /\ callers'[c].scheme = "RedisKv"
                /\ callers'[c].op \in {"insert", "update", "find"}
                /\ ~is_redis_available)
            => /\ callers'[c].res = redis_conn(is_redis_available)
               /\ callers'[c].reply = "none"
               /\ cache' = cache /\ stream' = stream ]_vars

\* the callers whose last call is a RedisKv insert that set the cache entry
\* and then failed
SetThenFailed(id) ==
    {c \in Callers : /\ callers[c].pc = "idle" /\ callers[c].op = "insert"
                     /\ callers[c].scheme = "RedisKv"
                     /\ callers[c].cache_written /\ callers[c].res = "KVError"
                     /\ callers[c].merchant_id = id[1]
                     /\ callers[c].payment_id = id[2]}

\* the RedisKv inserts that set the cache entry and have not appended, which
\* is also where an insert abandoned by its caller stays
SetNotAppended(id) ==
    {c \in Callers : /\ callers[c].pc = "insert_append"
                     /\ callers[c].merchant_id = id[1]
                     /\ callers[c].payment_id = id[2]}

\* C29: once a RedisKv insert has set the cache entry and failed at its
\* stream append, or stopped before it, the cache entry stays; no insert
\* entry of the identity is in a stream and the relational store never gets
\* the row; every later insert of the identity fails, with the duplicate
\* error when redis answers; and a RedisKv find that redis answers returns
\* the row.
C29_FailedAppendLeavesCacheEntry ==
    /\ [](\A id \in Identities :
            (SetThenFailed(id) # {} \/ SetNotAppended(id) # {})
            => /\ CacheKey(id[2], id[1]) \in DOMAIN cache
               /\ InsertEntries(id) = {}
               /\ PgRows(pg, id[1], id[2]) = {}
               /\ \A c \in SetThenFailed(id) \cup SetNotAppended(id) :
                      /\ EntriesOfCall(callers[c].call) = {}
                      /\ \A j \in Returned("insert", id) :
                             log[j].call > callers[c].call
                             => log[j].res \in {"DuplicateValue", "KVError"})
    /\ [][ \A c \in Callers :
              (IsCachedFind(c)
                  /\ SetThenFailed(<<callers'[c].merchant_id, callers'[c].payment_id>>) # {})
              => /\ callers'[c].res = "Ok"
                 /\ SameIdentity(callers'[c].ret[1], callers'[c].merchant_id,
                                 callers'[c].payment_id) ]_vars

\* an insert set the cache entry and failed at its append; a retried insert
\* got the duplicate error and a find returned the row, while no stream
\* holds an entry and the relational store has no row
C29_Witness ==
    \E id \in Identities :
        /\ \E c1 \in SetThenFailed(id), j \in ReturnedWith("insert", id, "DuplicateValue") :
               /\ log[j].call > callers[c1].call
               /\ \E c2 \in Callers :
                      /\ callers[c2].pc = "idle" /\ callers[c2].op = "find"
                      /\ callers[c2].scheme = "RedisKv" /\ callers[c2].res = "Ok"
                      /\ callers[c2].merchant_id = id[1] /\ callers[c2].payment_id = id[2]
                      /\ callers[c2].call > log[j].call
        /\ EntryPlaces(id) = {}
        /\ PgRows(pg, id[1], id[2]) = {}

\* C30: two identities never share a cache key: a RedisKv find that returns
\* a row returns a row of the identity it was called with, and a RedisKv
\* insert gets the duplicate error only when an earlier RedisKv insert of the
\* same identity may have set the cache entry, also for ids that contain "_".
C30_CacheKeyIsInjective ==
    /\ \A c \in Callers :
           (callers[c].pc = "idle" /\ callers[c].op = "find" /\ callers[c].scheme = "RedisKv"
               /\ callers[c].res = "Ok")
           => SameIdentity(callers[c].ret[1], callers[c].merchant_id, callers[c].payment_id)
    /\ \A j \in DOMAIN log :
           (log[j].op = "insert" /\ log[j].scheme = "RedisKv" /\ log[j].res = "DuplicateValue")
           => \/ \E i \in DOMAIN log :
                     /\ log[i].op = "insert" /\ log[i].res \in {"Ok", "KVError"}
                     /\ log[i].call < log[j].call
                     /\ log[i].merchant_id = log[j].merchant_id
                     /\ log[i].payment_id = log[j].payment_id
              \/ \E c \in Callers :
                     /\ callers[c].pc = "insert_append"
                     /\ callers[c].merchant_id = log[j].merchant_id
                     /\ callers[c].payment_id = log[j].payment_id

\* caller w's last call is a RedisKv insert or update of the identity that
\* returned Ok
IsCachedWrite(w, merchant_id, payment_id) ==
    /\ callers[w].pc = "idle" /\ callers[w].op \in {"insert", "update"}
    /\ callers[w].scheme = "RedisKv" /\ callers[w].res = "Ok"
    /\ callers[w].merchant_id = merchant_id /\ callers[w].payment_id = payment_id

\* no insert or update of the identity that may have written the cache was
\* started after caller w's last call
NoLaterWrite(w, merchant_id, payment_id) ==
    /\ \A i \in DOMAIN log :
           (log[i].op \in {"insert", "update"} /\ log[i].merchant_id = merchant_id
               /\ log[i].payment_id = payment_id /\ log[i].call > callers[w].call)
           => log[i].res \in {"DuplicateValue", "ValueNotFound"}
    /\ \A c \in Callers :
           (callers[c].pc # "idle" /\ callers[c].merchant_id = merchant_id
               /\ callers[c].payment_id = payment_id)
           => callers[c].call < callers[w].call

\* C31: a RedisKv find that redis answers, made after a RedisKv insert or
\* update of the same identity returned Ok and before any later write of
\* that identity, returns Ok with the row that write returned, whatever the
\* drainer has applied.
C31_CachedFindReadsLastWrite ==
    [][ \A c, w \in Callers :
            (IsCachedFind(c)
                /\ IsCachedWrite(w, callers'[c].merchant_id, callers'[c].payment_id)
                /\ NoLaterWrite(w, callers'[c].merchant_id, callers'[c].payment_id))
            => /\ callers'[c].res = "Ok"
               /\ callers'[c].ret = callers[w].ret ]_vars

\* a find returned the row another caller's update had returned, with the
\* new status, while the drainer has applied nothing
C31_Witness ==
    \E c, w \in Callers :
        /\ c # w
        /\ IsCachedWrite(w, callers[c].merchant_id, callers[c].payment_id)
        /\ callers[w].op = "update"
        /\ callers[c].pc = "idle" /\ callers[c].op = "find" /\ callers[c].scheme = "RedisKv"
        /\ callers[c].res = "Ok" /\ callers[c].call > callers[w].call
        /\ callers[c].ret = callers[w].ret
        /\ callers[c].ret[1].status = "Succeeded"
        /\ pg = {} /\ \A name \in StreamNames : Drained(name) = 0
        /\ \E name \in StreamNames : Len(Entries(name)) >= 2

(***************************************************************************)
(* Properties of the verify flow's tracker creation.                       *)
(***************************************************************************)
IsPrefix(a, b) == Len(a) <= Len(b) /\ \A i \in 1..Len(a) : a[i] = b[i]

\* C1: every get_trackers run issues its inserts in the order Intent,
\* Attempt, connector response: what it has issued so far is a prefix of
\* that order.
C1_IntentInsertedFirst ==
    \A r \in Runs :
        IsPrefix(runs[r].issued, <<"payment_intent", "payment_attempt", "connector_response">>)

\* C2: every Attempt row in storage has a parent Intent row with its
\* (merchant_id, payment_id) in storage.
C2_AttemptHasParentIntent ==
    \A a \in payment_attempts : PgRows(pg, a.merchant_id, a.payment_id) # {}

\* the place of a status in the order RequiresPaymentMethod,
\* RequiresConfirmation, RequiresCapture, Processing, terminal
Rank(status) ==
    CASE status = "RequiresPaymentMethod" -> 1
      [] status = "RequiresConfirmation" -> 2
      [] status = "RequiresCapture" -> 3
      [] status = "Processing" -> 4
      [] OTHER -> 5

\* C12: no step of a pipeline run stores, for an Intent row that exists, a
\* status earlier in the order than the status stored before the step.
C12_StatusMovesForward ==
    [][ \A row \in pg :
            \A after \in PgRows(pg', row.merchant_id, row.payment_id) :
                Rank(after.status) >= Rank(row.status) ]_vars

\* a run whose Intent was created RequiresPaymentMethod and whose
\* update_trackers stored Processing
C12_Witness ==
    \E r \in Runs :
        /\ runs[r].pc = "done"
        /\ runs[r].created_status = "RequiresPaymentMethod"
        /\ \E row \in PgRows(pg, runs[r].merchant_id, runs[r].payment_id) :
               row.status = "Processing"

\* the Attempt row the run r inserted is in storage
AttemptOf(r) ==
    {a \in payment_attempts : a.txn_id = r}

\* the inserts of get_trackers in the order the run issues them
InsertOrder == <<"payment_attempt", "payment_intent", "connector_response">>

\* the n-th insert of run r left its row in storage
InsertedRowRemains(r, n) ==
    CASE n = 1 -> AttemptOf(r) # {}
      [] n = 2 -> PgRows(pg, runs[r].merchant_id, runs[r].payment_id) # {}
      [] OTHER -> TRUE

\* C13: a get_trackers run one of whose inserts failed has stopped at that
\* insert (it is the last one issued and the only error of the run), has
\* returned VerificationFailed, and the rows of the inserts issued before it
\* are in storage.
C13_FailedInsertStopsRun ==
    \A r \in Runs :
        (\E i \in DOMAIN runs[r].errors : runs[r].errors[i] = "GetTracker")
        => /\ runs[r].pc = "failed"
           /\ runs[r].res = "VerificationFailed"
           /\ runs[r].errors = <<"GetTracker">>
           /\ IsPrefix(runs[r].issued, InsertOrder)
           /\ runs[r].updates = <<>>
           /\ \A n \in 1..(Len(runs[r].issued) - 1) : InsertedRowRemains(r, n)

\* a run whose third insert failed after its Attempt and its Intent were
\* inserted: it returned VerificationFailed and both rows are in storage
C13_Witness ==
    \E r \in Runs :
        /\ runs[r].pc = "failed"
        /\ runs[r].errors = <<"GetTracker">>
        /\ Len(runs[r].issued) = 3
        /\ runs[r].res = "VerificationFailed"
        /\ runs[r].payment_intent # None
        /\ AttemptOf(r) # {}
        /\ connector_responses = {}

\* C14: for every (merchant_id, payment_id) at most one Intent row and at
\* most one Attempt row are in storage, whatever number of tracker-creating
\* runs used the id.
C14_OneIntentOneAttemptPerId ==
    \A id \in Identities :
        /\ Cardinality(PgRows(pg, id[1], id[2])) <= 1
        /\ Cardinality({a \in payment_attempts :
                           a.merchant_id = id[1] /\ a.payment_id = id[2]}) <= 1

AllStages == <<"ValidateRequest", "GetTracker", "Domain", "UpdateTracker">>

HasError(r, stage) == \E i \in DOMAIN runs[r].errors : runs[r].errors[i] = stage

HasStage(r, stage) == \E i \in DOMAIN runs[r].stages : runs[r].stages[i] = stage

\* C15: the stages a run has entered are a prefix of ValidateRequest,
\* GetTracker, domain enrichment, UpdateTracker; a run that is done entered
\* all four; a run whose GetTracker or domain enrichment failed never enters
\* UpdateTracker and issues no storage update.
C15_StagesInFixedOrder ==
    \A r \in Runs :
        /\ IsPrefix(runs[r].stages, AllStages)
        /\ runs[r].pc = "done" => runs[r].stages = AllStages
        /\ (HasError(r, "GetTracker") \/ HasError(r, "Domain"))
           => (~HasStage(r, "UpdateTracker") /\ runs[r].updates = <<>>)

\* one run failed in GetTracker, another in domain enrichment
C15_Witness ==
    \E r1, r2 \in Runs :
        /\ HasError(r1, "GetTracker") /\ runs[r1].pc = "failed"
        /\ HasError(r2, "Domain") /\ runs[r2].pc = "failed"

\* C16: the step of validate_request changes no row, cache entry or stream;
\* a run whose validation failed has returned its error, has entered no
\* other stage and has issued no insert.
C16_ValidationTouchesNoStorage ==
    /\ [][ \A r \in Runs :
              (runs[r].pc = "start" /\ runs'[r].pc # "start")
              => UNCHANGED <<pg, payment_attempts, connector_responses, cache, stream>> ]_vars
    /\ [](\A r \in Runs :
              HasError(r, "ValidateRequest")
              => /\ runs[r].pc = "failed"
                 /\ runs[r].res \in {"MerchantAccountNotFound", "MandateError"}
                 /\ runs[r].stages = <<"ValidateRequest">>
                 /\ runs[r].issued = <<>>)

\* one run was refused for its merchant id, another for its mandate data
C16_Witness ==
    \E r1, r2 \in Runs :
        /\ runs[r1].res = "MerchantAccountNotFound" /\ runs[r1].pc = "failed"
        /\ runs[r2].res = "MandateError" /\ runs[r2].pc = "failed"

\* C17: a run that has entered update_trackers has issued exactly one
\* storage update, an update_payment_intent with the ReturnUrlUpdate variant;
\* a run that has not has issued none; no Attempt row is ever updated.
C17_OneUpdatePerRun ==
    /\ \A r \in Runs :
          IF HasStage(r, "UpdateTracker")
          THEN /\ Len(runs[r].updates) = 1
               /\ runs[r].updates[1].entity = "payment_intent"
               /\ runs[r].updates[1].variant = "ReturnUrlUpdate"
          ELSE runs[r].updates = <<>>
    /\ \A a \in payment_attempts : a.status = "Pending"

\* a run that is done: its one update set the Intent's status to Processing
C17_Witness ==
    \E r \in Runs :
        /\ runs[r].pc = "done"
        /\ Len(runs[r].updates) = 1
        /\ runs[r].updates[1].changeset.status = Some("Processing")
        /\ runs[r].payment_intent[1].status = "Processing"

(***************************************************************************)
(* Properties of the insert paths.                                         *)
(***************************************************************************)
\* C4: in every implementation of the storage interface the stored Intent
\* rows have pairwise different (merchant_id, payment_id): an insert of an
\* identity that exists adds no row.
C4_IdentityStaysUnique ==
    /\ \A a, b \in pg : SameIdentity(a, b.merchant_id, b.payment_id) => a = b
    /\ \A i, j \in DOMAIN payment_intents :
           SameIdentity(payment_intents[i], payment_intents[j].merchant_id,
                        payment_intents[j].payment_id) => i = j

\* the fields of a row other than the id the store assigns
RowFields == {IntentFields[i] : i \in 1..Len(IntentFields)} \ {"id"}

SameRow(a, b) == \A f \in RowFields : a[f] = b[f]

\* C7: the row the RedisKv insert writes to the cache and returns equals, in
\* every field but the id the store assigns, the row the relational insert
\* and the MockDb insert produce for the same PaymentIntentNew.
C7_CacheRowEqualsRelationalRow ==
    /\ (row_out.kv # None /\ row_out.pg # None) => SameRow(row_out.kv[1], row_out.pg[1])
    /\ (row_out.kv # None /\ row_out.mock # None) => SameRow(row_out.kv[1], row_out.mock[1])
(***************************************************************************)
(* Properties of the Domain stage's customer.                              *)
(***************************************************************************)
\* C25: whatever the interleaving of the runs, the store holds at most one
\* Customer row per (customer_id, merchant_id), and no run has inserted
\* more than one Customer row.
C25_CustomerCreatedOnce ==
    /\ \A row \in customers :
           Cardinality(CustomerRows(customers, row.customer_id, row.merchant_id)) = 1
    /\ \A r \in Runs : Cardinality({row \in customers : row.by = r}) <= 1

\* two runs of one customer_id both found no customer; one inserted the row
\* and the other's insert was refused
C25_Witness ==
    \E r1, r2 \in Runs :
        /\ r1 # r2
        /\ runs[r1].customer_id = Some("C1") /\ runs[r2].customer_id = Some("C1")
        /\ runs[r1].merchant_id = runs[r2].merchant_id
        /\ runs[r1].customer # None /\ runs[r1].customer[1].by = r1
        /\ runs[r2].pc = "failed" /\ runs[r2].res = "DuplicateValue"
        /\ Cardinality(customers) = 1

(***************************************************************************)
(* Properties of the dashboard user's handlers.                            *)
(***************************************************************************)
PrimaryHandlers == {"change_password", "rotate_password", "reset_password", "update_totp"}

\* C26: a call of change_password, rotate_password, reset_password or
\* update_totp whose user update succeeded returned StatusOk, whichever of
\* its later side effects (blacklist inserts, metadata delete, redis delete
\* and insert) failed.
C26_SideEffectsNeverFailPrimary ==
    /\ []((user_state.call.op \in PrimaryHandlers /\ user_state.call.updated)
            => user_state.call.res = "StatusOk")
    /\ [][ (\/ user_state'.password # user_state.password
            \/ user_state'.totp_secret # user_state.totp_secret)
           => (user_state'.call.updated /\ user_state'.call.res = "StatusOk") ]_vars

\* update_totp stored the secret and returned StatusOk although both of its
\* redis side effects failed, after a password change whose blacklist
\* insert had failed
C26_Witness ==
    /\ user_state.call.op = "update_totp"
    /\ user_state.call.res = "StatusOk"
    /\ user_state.call.failed = {"delete_totp_secret_from_redis", "insert_totp_in_redis"}
    /\ user_state.totp_secret # None
    /\ user_state.redis_totp_secret # None /\ ~user_state.redis_totp
    /\ user_state.password # generate_password_hash("pw1")
    /\ user_state.blacklist = {}

(***************************************************************************)
(* Properties of the refund request.                                       *)
(***************************************************************************)
\* C27: a refund request that omits refund_type is handled as an Instant
\* refund.
C27_DefaultRefundTypeIsInstant ==
    (refund.request.refund_type = None /\ refund.refund_type # None)
    => refund.refund_type = Some("Instant")

(***************************************************************************)
(* Properties of invite_multiple_user.                                     *)
(***************************************************************************)
\* the request at position i cannot succeed, whatever the other requests do
Faulty(i) ==
    \/ invite.requests[i].email = InviterEmail
    \/ ~is_invitable(invite.requests[i].role_id)
    \/ invite.failing.at = i /\ invite.failing.call # "none"

\* the positions whose request is for the email of position i and could
\* succeed
SameInvitee(i) ==
    {j \in DOMAIN invite.requests :
        invite.requests[j].email = invite.requests[i].email /\ ~Faulty(j)}

Succeeded(i) == invite.responses[i] # None /\ invite.responses[i][1].error = None

\* C28: a call with more than MaxInvitations requests returns
\* MaxInvitationsError without handling a request or inserting a row; a call
\* with at most MaxInvitations requests returns one response per request, at
\* the request's position and for the request's email, in which a request
\* that cannot succeed has an error and every other request has none and has
\* its user and user-role rows (of requests for one email exactly one
\* succeeds); a response once made and a row once inserted stay.
C28_InvitationsAreIsolated ==
    /\ []((invite.pc # "idle" /\ Len(invite.requests) > MaxInvitations)
            => /\ invite.res = "MaxInvitationsError"
               /\ invite.responses = <<>> /\ invite.pending = {}
               /\ invite.users = {InviterEmail} /\ invite.user_roles = {})
    /\ []((invite.pc = "done" /\ Len(invite.requests) <= MaxInvitations)
            => /\ invite.res = "Json"
               /\ DOMAIN invite.responses = DOMAIN invite.requests
               /\ \A i \in DOMAIN invite.requests :
                      /\ invite.responses[i] # None
                      /\ invite.responses[i][1].email = invite.requests[i].email
                      /\ Faulty(i) => ~Succeeded(i)
                      /\ ~Faulty(i) => Cardinality({j \in SameInvitee(i) : Succeeded(j)}) = 1
                      /\ Succeeded(i) => /\ invite.requests[i].email \in invite.users
                                         /\ invite.requests[i].email \in invite.user_roles)
    /\ [][ /\ invite.users \subseteq invite'.users
           /\ invite.user_roles \subseteq invite'.user_roles
           /\ \A i \in DOMAIN invite.responses :
                  invite.responses[i] # None => invite'.responses[i] = invite.responses[i] ]_vars

\* a call of MaxInvitations requests returned: the second request, for a
\* role that is not invitable, has the error in its response, and the nine
\* others succeeded and have their rows
C28_Witness ==
    /\ invite.pc = "done" /\ invite.res = "Json"
    /\ Len(invite.requests) = MaxInvitations
    /\ invite.responses[2][1].error = Some("InvalidRoleId")
    /\ \A i \in DOMAIN invite.requests : i # 2 => Succeeded(i)
    /\ Cardinality(invite.user_roles) = MaxInvitations - 1

(***************************************************************************)
(* Properties of the two-factor handlers                                   *)
(***************************************************************************)
\* the codes of the user's row, as a set of hashes
StoredCodes(row) == IF row.recovery_codes = None THEN {}
                    ELSE {row.recovery_codes[1][i] : i \in DOMAIN row.recovery_codes[1]}

\* C32: no recovery code makes more than one verify_recovery_code call
\* succeed, and a call that succeeds leaves the user's row without the code
\* it matched and with every other code the row held.
C32_RecoveryCodeIsSingleUse ==
    /\ [](\A code \in RequestCodes : verify_calls.succeeded[code] <= 1)
    /\ [][ \A c \in Callers :
               VerifyRecoveryCodeUpdate(c, "ok")
               => LET matched == generate_password_hash(verify_calls.sessions[c].recovery_code)
                  IN  /\ matched \notin StoredCodes(user_state')
                      /\ StoredCodes(user_state) \ {matched} \subseteq StoredCodes(user_state') ]_vars


(***************************************************************************)
(* Properties of the password handlers                                     *)
(***************************************************************************)
\* the step is a reset_password call
IsResetPassword == user_state'.call.op = "reset_password"

\* C33: a reset_password call whose email token is in the blacklist fails
\* and updates no password, and once a reset_password call with the token
\* has returned StatusOk a later reset_password call with that token does
\* not change the password.
C33_EmailTokenIsSingleUse ==
    /\ [][ (IsResetPassword /\ "email_token" \in user_state.blacklist)
           => /\ user_state'.call.res # "StatusOk"
              /\ ~user_state'.call.updated
              /\ user_state'.password = user_state.password ]_vars
    /\ [][ (IsResetPassword /\ user_state.call.op = "reset_password"
               /\ user_state.call.res = "StatusOk")
           => user_state'.password = user_state.password ]_vars


\* C36: a change_password call that finds the user changes the stored
\* password only if the old password given matches the stored one and the
\* new one differs from it; with a wrong old password it returns
\* InvalidOldPassword, with a right old password equal to the new one it
\* returns ChangePasswordError, and in both cases the stored password and
\* the blacklist stay as they were.
C36_ChangePasswordChecksOldAndNew ==
    [][ user_state'.call.op = "change_password" =>
        \A old_password, new_password \in Passwords,
           find_reply, update_reply, blacklist_reply, metadata_reply \in Replies :
            change_password(old_password, new_password, find_reply, update_reply,
                            blacklist_reply, metadata_reply)
            => LET matches == user_state.password = generate_password_hash(old_password)
                   untouched == /\ user_state'.password = user_state.password
                                /\ user_state'.blacklist = user_state.blacklist
               IN  /\ (find_reply = "ok" /\ ~matches)
                      => (user_state'.call.res = "InvalidOldPassword" /\ untouched)
                   /\ (find_reply = "ok" /\ matches /\ old_password = new_password)
                      => (user_state'.call.res = "ChangePasswordError" /\ untouched)
                   /\ user_state'.password # user_state.password
                      => (matches /\ old_password # new_password
                            /\ user_state'.password = generate_password_hash(new_password)) ]_vars

\* after a change to pw2 that put the user in the blacklist, a call was
\* turned down
C36_Witness ==
    /\ user_state.call.op = "change_password"
    /\ user_state.call.res \in {"InvalidOldPassword", "ChangePasswordError"}
    /\ user_state.password = generate_password_hash("pw2")
    /\ "user" \in user_state.blacklist


\* the step is a terminate_two_factor_auth call with skip_two_factor_auth =
\* false whose find_user_by_id and redis checks answered
IsTerminate(update_reply, token_reply) ==
    /\ user_state'.call.op = "terminate_two_factor_auth"
    /\ terminate_two_factor_auth(FALSE, "ok", "ok", "ok", update_reply, token_reply)

MarkerPresent == user_state.redis_totp \/ user_state.redis_recovery_code

\* C34 as stated: with skip_two_factor_auth = false the token is issued
\* only if a TOTP or recovery-code marker is in redis and the user has
\* recovery codes; otherwise the call returns TwoFactorAuthRequired or
\* TwoFactorAuthNotSetup and leaves the TOTP status as it was; after a
\* success the TOTP status is Set.
C34_TokenOnlyWithMarkerAndCodes ==
    [][ \A update_reply, token_reply \in Replies :
            IsTerminate(update_reply, token_reply)
            => LET has_codes == StoredCodes(user_state) # {}
               IN  /\ user_state'.call.res = "Ok"
                      => (MarkerPresent /\ has_codes /\ user_state'.totp_status = "Set")
                   /\ ~(MarkerPresent /\ has_codes)
                      => /\ user_state'.call.res \in {"TwoFactorAuthRequired",
                                                      "TwoFactorAuthNotSetup"}
                         /\ user_state'.totp_status = user_state.totp_status ]_vars

\* C34 amended: the same with "has recovery codes" read as the code list of
\* the user's row being set, be it empty.
C34_TokenOnlyWithMarkerAndCodeList ==
    [][ \A update_reply, token_reply \in Replies :
            IsTerminate(update_reply, token_reply)
            => LET has_list == user_state.recovery_codes # None
               IN  /\ user_state'.call.res = "Ok"
                      => (MarkerPresent /\ has_list /\ user_state'.totp_status = "Set")
                   /\ ~MarkerPresent => user_state'.call.res = "TwoFactorAuthRequired"
                   /\ (MarkerPresent /\ ~has_list)
                      => user_state'.call.res = "TwoFactorAuthNotSetup"
                   /\ ~(MarkerPresent /\ has_list)
                      => user_state'.totp_status = user_state.totp_status ]_vars


\* a call with a marker in redis and the code list set returned the token
\* and set the TOTP status
C34_Witness ==
    /\ user_state.call.op = "terminate_two_factor_auth"
    /\ user_state.call.res = "Ok" /\ user_state.call.updated
    /\ user_state.totp_status = "Set"
    /\ MarkerPresent /\ user_state.recovery_codes # None


\* the first n steps of signout
StepsDone(n) == SubSeq(SignoutSteps, 1, n)

\* C35: signout has returned success only with its four steps done in the
\* handler's order; each step is taken only with exactly the steps before it
\* done and has its effect on redis or the blacklist; a call whose step
\* failed returned the error with the steps before it done and that step
\* and the later ones not.
C35_SignoutStepsInOrder ==
    /\ [](signout_call.res = "Ok"
            => (signout_call.pc = "idle" /\ signout_call.done = SignoutSteps))
    /\ [](signout_call.res = "InternalServerError"
            => /\ signout_call.pc = "idle"
               /\ \E n \in 0..(Len(SignoutSteps) - 1) : signout_call.done = StepsDone(n))
    /\ [](signout_call.pc \notin {"idle"}
            => \E n \in 1..(Len(SignoutSteps) - 1) :
                  /\ signout_call.pc = SignoutSteps[n + 1]
                  /\ signout_call.done = StepsDone(n))
    /\ [][ signout_call'.done # signout_call.done /\ signout_call'.done # <<>>
           => LET n == Len(signout_call'.done)
              IN  /\ signout_call'.done = StepsDone(n)
                  /\ n > 1 => signout_call.done = StepsDone(n - 1)
                  /\ n = 1 => ~user_state'.redis_totp
                  /\ n = 2 => ~user_state'.redis_recovery_code
                  /\ n = 3 => user_state'.redis_totp_secret = None
                  /\ n = 4 => ("user" \in user_state'.blacklist /\ signout_call'.res = "Ok") ]_vars
    /\ [][ signout_call'.res = "InternalServerError" /\ signout_call.res # "InternalServerError"
           => /\ signout_call'.done = (IF signout_call.pc = "idle" THEN <<>> ELSE signout_call.done)
              /\ user_state' = user_state ]_vars

\* a signout of the enrolled user returned success: no marker and no
\* pending secret is in redis and the user is in the blacklist
C35_Witness ==
    /\ signout_call.res = "Ok" /\ signout_call.done = SignoutSteps
    /\ ~user_state.redis_totp /\ ~user_state.redis_recovery_code
    /\ user_state.redis_totp_secret = None
    /\ "user" \in user_state.blacklist
    /\ user_state.totp_status = "Set"

\* a signout stopped at its third step
C35_WitnessFailure ==
    /\ signout_call.res = "InternalServerError" /\ signout_call.done = StepsDone(2)
    /\ "user" \notin user_state.blacklist


(***************************************************************************)
(* Properties of the merchant handlers                                     *)
(***************************************************************************)
\* C37: a create_merchant_account call that inserted the merchant account
\* and did not return StatusOk returned the role insert's error, and the
\* account it inserted is not in the store any more.
C37_FailedCreateLeavesNoAccount ==
    (tenancy.call.op = "create_merchant_account" /\ tenancy.call.created
        /\ tenancy.call.res # "StatusOk")
    => /\ tenancy.call.res = "RoleInsertionError"
       /\ tenancy.call.merchant_id \notin tenancy.merchant_accounts

SwitchRejections == {"InvalidRoleOperationWithMessage", "InvalidRoleOperation"}

\* C38: a switch_merchant_id call for the merchant of the token used is
\* turned down; a call made with a role that is not internal returns a token
\* only for the merchant asked for and only if the user's role there has
\* status Active, and is turned down when the role is missing or has status
\* InvitationSent; a call that is turned down returns no token, adds no
\* token to the user's and writes no permission cache entry.
C38_SwitchNeedsActiveRole ==
    [][ tenancy'.call.op = "switch_merchant_id"
        => LET call == tenancy'.call
               merchant_id == call.merchant_id
           IN  /\ call.from_merchant_id = merchant_id
                  => call.res = "InvalidRoleOperationWithMessage"
               /\ call.token # None
                  => /\ call.token = Some(merchant_id)
                     /\ call.from_merchant_id # merchant_id
                     /\ ~call.is_internal => tenancy.user_roles[merchant_id] = "Active"
               /\ (~call.is_internal /\ tenancy.user_roles[merchant_id] # "Active")
                  => /\ call.res \in SwitchRejections \cup {"InternalServerError"}
                     /\ tenancy'.permission_cache = tenancy.permission_cache
               /\ call.res \in SwitchRejections
                  => /\ call.token = None
                     /\ tenancy'.tokens = tenancy.tokens
                     /\ tenancy'.permission_cache = tenancy.permission_cache
               /\ tenancy'.tokens \subseteq
                      tenancy.tokens \cup (IF call.token = None THEN {} ELSE {merchant_id}) ]_vars

\* the user, who had switched to the merchant M2 created before, was turned
\* down for M3, where the role's status is InvitationSent
C38_Witness ==
    /\ tenancy.call.op = "switch_merchant_id" /\ tenancy.call.merchant_id = "M3"
    /\ ~tenancy.call.is_internal
    /\ tenancy.call.res = "InvalidRoleOperation"
    /\ tenancy.user_roles["M3"] = "InvitationSent"
    /\ tenancy.tokens = {"M1", "M2"} /\ tenancy.permission_cache = {"M2"}


(***************************************************************************)
(* Properties of the queries on configs and merchant_connector_account     *)
(***************************************************************************)
\* C39: an update with a changeset without a field, of a row that is in the
\* store, by Config::update_by_key (whose second read the store answers) or
\* by MerchantConnectorAccount::update, returns Ok with the row as it is in
\* the store; an update with a field returns the store's error, if any, as
\* it is.
C39_EmptyUpdateReturnsCurrentRow ==
    [][ (tables'.call.op \in {"Config::update_by_key", "MerchantConnectorAccount::update"}
            /\ tables'.call # tables.call)
        => LET call == tables'.call
               stored == IF call.op = "Config::update_by_key" THEN tables.configs
                         ELSE tables.merchant_connector_account
               stored_after == IF call.op = "Config::update_by_key" THEN tables'.configs
                               ELSE tables'.merchant_connector_account
           IN  /\ (call.no_fields /\ stored # None /\ call.res # "DatabaseError")
                  => (call.res = "Ok" /\ call.ret = stored /\ stored_after = stored)
               /\ ~call.no_fields
                  => call.res \in {"Ok", "DatabaseError", "NotFound"} ]_vars


====
